---- MODULE Spec2Model ----
(***************************************************************************)
(* led-dudes: the DudeManager (animation loop, scheduler, pause/resume,    *)
(* termination signals), the Dude emitters and the blend pipeline.         *)
(* Modelled from src/unnamed/part_003 (the revision of led-dudes.ts that   *)
(* has the Stripes mode, linked seeds and slide) and src/led-controller.ts.*)
(***************************************************************************)
EXTENDS Integers, Sequences, FiniteSets, TLC

(***************************************************************************)
(* JavaScript numbers.  A finite number is the fraction <<n, d>> in lowest *)
(* terms with d > 0; <<1, 0>> is Infinity, <<-1, 0>> is -Infinity and      *)
(* <<0, 0>> is NaN.  Every operand the model produces is >= 0, so the sign *)
(* of zero never matters.  <<>> is undefined.  Fractions stand for the     *)
(* numbers wherever rounding does not decide the outcome.                  *)
(***************************************************************************)
Undefined == <<>>

NaN == <<0, 0>>

Infinity == <<1, 0>>

Abs(x) == IF x < 0 THEN -x ELSE x

Sign(x) == IF x > 0 THEN 1 ELSE IF x < 0 THEN -1 ELSE 0

RECURSIVE GCD(_, _)
GCD(a, b) == IF b = 0 THEN a ELSE GCD(b, a % b)

Norm(n, d) ==
  IF d = 0 THEN <<Sign(n), 0>>
  ELSE LET g == GCD(Abs(n), Abs(d))
       IN  <<(Sign(d) * n) \div g, Abs(d) \div g>>

Num(n) == <<n, 1>>

Frac(n, d) == Norm(n, d)

IsNaN(a) == a = NaN

IsFinite(a) == a[2] # 0

Neg(a) == <<-a[1], a[2]>>

(***************************************************************************)
(* JavaScript numbers as IEEE 754 binary64 values, for the additions whose *)
(* rounding matters.  A finite value >= 0 is <<mant, exp, "f64">>: mant is *)
(* the 53-bit significand, most significant bit first and leading bit 1,   *)
(* and the value is mant * 2^exp; zero has the empty significand.          *)
(***************************************************************************)
IsF64(a) == Len(a) = 3

Zeros(n) == [k \in 1..n |-> 0]

\* the bits of a natural number, most significant first, no leading zero
RECURSIVE NatBits(_)
NatBits(n) == IF n = 0 THEN <<>> ELSE NatBits(n \div 2) \o <<n % 2>>

\* bits without their leading zeros
StripZeros(bits) ==
  IF \A k \in 1..Len(bits) : bits[k] = 0 THEN <<>>
  ELSE SubSeq(bits,
              CHOOSE k \in 1..Len(bits) : bits[k] = 1 /\ \A j \in 1..(k - 1) : bits[j] = 0,
              Len(bits))

\* the natural number of at most 24 bits
RECURSIVE BitsToNat(_)
BitsToNat(bits) ==
  IF bits = <<>> THEN 0
  ELSE 2 * BitsToNat(SubSeq(bits, 1, Len(bits) - 1)) + bits[Len(bits)]

\* the lowest `width` bits of a natural number
NatToBits(v, width) == [k \in 1..width |-> (v \div (2 ^ (width - k))) % 2]

\* a + b + carry for two bit strings of one length n, as n + 1 bits, by blocks of
\* 24 bits from the least significant end
RECURSIVE BitAddCarry(_, _, _)
BitAddCarry(a, b, carry) ==
  LET n == Len(a)
  IN  IF n <= 24 THEN NatToBits(BitsToNat(a) + BitsToNat(b) + carry, n + 1)
      ELSE LET low == NatToBits(BitsToNat(SubSeq(a, n - 23, n))
                                  + BitsToNat(SubSeq(b, n - 23, n)) + carry, 25)
           IN  BitAddCarry(SubSeq(a, 1, n - 24), SubSeq(b, 1, n - 24), low[1]) \o Tail(low)

\* the sum of two bit strings of one length n, as n + 1 bits
BitAdd(a, b) == BitAddCarry(a, b, 0)

\* bits * 2^exp (bits without leading zero) rounded to the nearest binary64 value,
\* ties to the even significand
F64Round(bits, exp) ==
  IF bits = <<>> THEN <<<<>>, 0, "f64">>
  ELSE IF Len(bits) <= 53
  THEN <<bits \o Zeros(53 - Len(bits)), exp - (53 - Len(bits)), "f64">>
  ELSE LET keep == SubSeq(bits, 1, 53)
           rest == SubSeq(bits, 54, Len(bits))
           up   == rest[1] = 1 /\ (keep[53] = 1 \/ \E k \in 2..Len(rest) : rest[k] = 1)
           inc  == BitAdd(keep, Zeros(52) \o <<1>>)
       IN  IF ~up THEN <<keep, exp + Len(rest), "f64">>
           ELSE IF inc[1] = 1 THEN <<SubSeq(inc, 1, 53), exp + Len(rest) + 1, "f64">>
           ELSE <<SubSeq(inc, 2, 54), exp + Len(rest), "f64">>

\* the binary64 value written 0x1.<13 hex digits>p<exp>
F64Hex(digits, exp) ==
  << [k \in 1..53 |->
        IF k = 1 THEN 1
        ELSE (digits[((k - 2) \div 4) + 1] \div (2 ^ (3 - ((k - 2) % 4)))) % 2],
     exp - 52, "f64" >>

\* the exponent of a power of two
RECURSIVE Log2(_)
Log2(d) == IF d = 1 THEN 0 ELSE 1 + Log2(d \div 2)

\* a number as a binary64 value: one already, or a fraction n / 2^k >= 0
ToF64(a) == IF IsF64(a) THEN a ELSE F64Round(NatBits(a[1]), -Log2(a[2]))

\* x + y in binary64 for finite x, y >= 0: the exact sum, rounded once.  An operand
\* 54 or more binary places below the other is less than half a unit in the last
\* place of it, and the sum rounds to the other.
F64Add(x, y) ==
  IF x[1] = <<>> THEN y
  ELSE IF y[1] = <<>> THEN x
  ELSE IF x[2] - y[2] >= 54 THEN x
  ELSE IF y[2] - x[2] >= 54 THEN y
  ELSE LET exp == IF x[2] < y[2] THEN x[2] ELSE y[2]
           ax  == x[1] \o Zeros(x[2] - exp)
           ay  == y[1] \o Zeros(y[2] - exp)
           n   == IF Len(ax) < Len(ay) THEN Len(ay) ELSE Len(ax)
       IN  F64Round(StripZeros(BitAdd(Zeros(n - Len(ax)) \o ax, Zeros(n - Len(ay)) \o ay)),
                    exp)

\* a - b - borrow for two bit strings of one length n with a >= b + borrow, as n
\* bits, by blocks of 24 bits from the least significant end
RECURSIVE BitSubBorrow(_, _, _)
BitSubBorrow(a, b, borrow) ==
  LET n == Len(a)
  IN  IF n <= 24 THEN NatToBits(BitsToNat(a) - BitsToNat(b) - borrow, n)
      ELSE LET low == NatToBits(16777216 + BitsToNat(SubSeq(a, n - 23, n))
                                  - BitsToNat(SubSeq(b, n - 23, n)) - borrow, 25)
           IN  BitSubBorrow(SubSeq(a, 1, n - 24), SubSeq(b, 1, n - 24), 1 - low[1])
                 \o Tail(low)

\* a < b for two bit strings of one length
BitsLt(a, b) == \E k \in 1..Len(a) : a[k] < b[k] /\ \A j \in 1..(k - 1) : a[j] = b[j]

\* x < y for finite binary64 values >= 0
F64Lt(x, y) ==
  IF y[1] = <<>> THEN FALSE
  ELSE IF x[1] = <<>> THEN TRUE
  ELSE IF x[2] # y[2] THEN x[2] < y[2]
  ELSE BitsLt(x[1], y[1])

F64Le(x, y) == ~F64Lt(y, x)

\* x - y in binary64 for finite x >= y >= 0: the exact difference, rounded once.  A
\* subtrahend 110 or more binary places below x leaves x after rounding.
F64Sub(x, y) ==
  IF y[1] = <<>> THEN x
  ELSE IF x[2] - y[2] >= 110 THEN x
  ELSE F64Round(StripZeros(BitSubBorrow(x[1] \o Zeros(x[2] - y[2]),
                                        Zeros(x[2] - y[2]) \o y[1], 0)),
                y[2])

\* bits (not all zero) without their trailing zeros
DropZeros(bits) ==
  SubSeq(bits, 1,
         CHOOSE k \in 1..Len(bits) : bits[k] = 1 /\ \A j \in (k + 1)..Len(bits) : bits[j] = 0)

\* a * (the bits lo..hi of b at their places), in Len(a) + Len(b) bits: shift and
\* add, by halves
RECURSIVE BitMulRange(_, _, _, _)
BitMulRange(a, b, lo, hi) ==
  IF lo = hi
  THEN (IF b[lo] = 1 THEN Zeros(lo) \o a \o Zeros(Len(b) - lo)
        ELSE Zeros(Len(a) + Len(b)))
  ELSE Tail(BitAdd(BitMulRange(a, b, lo, (lo + hi) \div 2),
                   BitMulRange(a, b, ((lo + hi) \div 2) + 1, hi)))

\* the product with the significand bits b of y (trailing zeros dropped)
F64MulBits(x, y, b) ==
  F64Round(StripZeros(BitMulRange(x[1], b, 1, Len(b))), x[2] + y[2] + (53 - Len(b)))

\* x * y in binary64 for finite x, y >= 0: the exact product, rounded once
F64Mul(x, y) ==
  IF x[1] = <<>> \/ y[1] = <<>> THEN <<<<>>, 0, "f64">>
  ELSE F64MulBits(x, y, DropZeros(y[1]))

\* the next binary64 value above x > 0
F64Succ(x) == F64Round(StripZeros(BitAdd(x[1], Zeros(52) \o <<1>>)), x[2])

(***************************************************************************)
(* Arithmetic.  Fractions are added, multiplied and divided exactly; a sum *)
(* with a binary64 operand is the rounded binary64 sum.                    *)
(***************************************************************************)
Add(a, b) ==
  IF IsF64(a) \/ IsF64(b) THEN F64Add(ToF64(a), ToF64(b))
  ELSE IF IsNaN(a) \/ IsNaN(b) THEN NaN
  ELSE IF ~IsFinite(a) /\ ~IsFinite(b) THEN (IF a = b THEN a ELSE NaN)
  ELSE IF ~IsFinite(a) THEN a
  ELSE IF ~IsFinite(b) THEN b
  ELSE Norm(a[1] * b[2] + b[1] * a[2], a[2] * b[2])

Sub(a, b) == Add(a, Neg(b))

Mul(a, b) == Norm(a[1] * b[1], a[2] * b[2])

Recip(a) == Norm(a[2], a[1])

Div(a, b) == Mul(a, Recip(b))

\* a < b, false when either is NaN
Lt(a, b) ==
  IF IsNaN(a) \/ IsNaN(b) THEN FALSE
  ELSE IF ~IsFinite(a) /\ ~IsFinite(b) THEN a[1] < b[1]
  ELSE a[1] * b[2] < b[1] * a[2]

\* a <= b, false when either is NaN
Le(a, b) == IF IsNaN(a) \/ IsNaN(b) THEN FALSE ELSE ~Lt(b, a)

\* Math.min and Math.max return NaN when an argument is NaN
MathMin(a, b) == IF IsNaN(a) \/ IsNaN(b) THEN NaN ELSE IF Lt(b, a) THEN b ELSE a

MathMax(a, b) == IF IsNaN(a) \/ IsNaN(b) THEN NaN ELSE IF Lt(a, b) THEN b ELSE a

\* Math.floor of a finite number
MathFloor(a) == Num(a[1] \div a[2])

\* Math.trunc of a finite number
MathTrunc(a) == IF a[1] < 0 THEN Neg(MathFloor(Neg(a))) ELSE MathFloor(a)

\* a % b of finite numbers, b not zero: the remainder has the sign of a
Rem(a, b) == Sub(a, Mul(b, MathTrunc(Div(a, b))))

\* value || 0
OrZero(value) == IF value = Undefined \/ value = NaN THEN Num(0) ELSE value

Rgb(r, g, b) == <<Num(r), Num(g), Num(b)>>

Black == Rgb(0, 0, 0)

(***************************************************************************)
(* Blend pipeline                                                          *)
(***************************************************************************)
BlendModes == {"SUM", "AVERAGE", "MULTIPLY", "DODGE", "BURN", "REPLACE", "DEFAULT"}

SumRgb(c) == Add(Add(c[1], c[2]), c[3])

\* every blend mode keeping the first contribution that is not zero
blendChannelFirst(blendMode, sumValue, value) ==
  IF sumValue = Num(0) \/ sumValue = ToF64(Num(0)) THEN value ELSE sumValue

\* every blend mode taken for Average
blendChannelHalved(blendMode, sumValue, value) == Div(Add(sumValue, value), Num(2))

blendChannel(blendMode, sumValue, value) ==
  CASE blendMode = "AVERAGE"  -> Div(Add(sumValue, value), Num(2))
    [] blendMode = "SUM"      -> Add(sumValue, value)
    [] blendMode = "MULTIPLY" -> Mul(sumValue, value)
    [] blendMode = "DODGE"    -> Div(sumValue, Sub(Num(1), Div(value, Num(255))))
    [] blendMode = "BURN"     -> Div(Sub(Num(1), Div(value, Num(255))), sumValue)
    [] blendMode = "REPLACE"  -> IF Lt(Num(0), value) THEN value ELSE sumValue

\* blendColors with Default blended per channel, as Sum
blendColorsPerChannel(blendMode, base, blend) ==
  [index \in 1..3 |->
     blendChannel(IF blendMode = "DEFAULT" THEN "SUM" ELSE blendMode, base[index],
                  blend[index])]

blendColors(blendMode, base, blend) ==
  IF blendMode = "DEFAULT"
  THEN LET difference == Div(Sub(SumRgb(blend), SumRgb(base)), Num(255))
       IN  IF Le(difference, Num(0)) THEN base
           ELSE [index \in 1..3 |-> Add(base[index], Mul(difference, blend[index]))]
  ELSE [index \in 1..3 |-> blendChannel(blendMode, base[index], blend[index])]

\* .map((value) => Math.max(0, Math.min(255, value)))
clamp(value) == MathMax(Num(0), MathMin(Num(255), value))

clampRgb(c) == [index \in 1..3 |-> clamp(c[index])]

(***************************************************************************)
(* Schedule                                                                *)
(***************************************************************************)
\* isAfter with the minutes compared strictly
isAfterStrict(date, ruleTime) ==
  IF date[1] = ruleTime[1] THEN date[2] > ruleTime[2] ELSE date[1] > ruleTime[1]

\* a Date is read only through getHours() and getMinutes(): <<hours, minutes>>
isAfter(date, ruleTime) ==
  IF date[1] = ruleTime[1] THEN date[2] >= ruleTime[2] ELSE date[1] > ruleTime[1]

(***************************************************************************)
(* Dude (emitter)                                                          *)
(***************************************************************************)
MODE_DEFAULT == "fm"

BLEND_MODE_DEFAULT == "SUM"

STROBE_PERIOD_DEFAULT == Frac(1000, 60)

SPEED_DEFAULT == Num(1)

WIDTH_DEFAULT == Frac(5, 2)

STRIPES_TIME_SCALE == Frac(1, 500)

ANTI_ALIAS_WIDTH == Num(1)

\* an omitted string option
Omitted == "undefined"

\* _.defaultTo(value, defaultValue) for string options
defaultToStr(value, defaultValue) == IF value = Omitted THEN defaultValue ELSE value

\* _.defaultTo(value, defaultValue) for numbers: undefined and NaN give the default
defaultTo(value, defaultValue) ==
  IF value = Undefined \/ value = NaN THEN defaultValue ELSE value

\* the waveform modes whose level is a sine of the phase state
Oscillating == {"classic", "fm"}

\* new Dude(config): seed and strobe state exist only outside Constant and Stripes;
\* random is the value of Math.random() * SEED_SCALE - 0.5 * SEED_SCALE
NewDude(dudeConfig, stripLength, random) ==
  LET mode   == defaultToStr(dudeConfig.mode, MODE_DEFAULT)
      init   == mode # "constant" /\ mode # "stripes"
      strobe == init /\ dudeConfig.strobe
  IN  [ stripLength  |-> stripLength,
        rgb          |-> dudeConfig.rgb,
        mode         |-> mode,
        speed        |-> defaultTo(dudeConfig.speed, SPEED_DEFAULT),
        width        |-> defaultTo(dudeConfig.width, WIDTH_DEFAULT),
        blendMode    |-> defaultToStr(dudeConfig.blendMode, BLEND_MODE_DEFAULT),
        seed         |-> IF init THEN defaultTo(dudeConfig.seed, random) ELSE Undefined,
        scale        |-> dudeConfig.scale,
        offset       |-> dudeConfig.offset,
        strobe       |-> strobe,
        strobePeriod |-> IF strobe
                         THEN defaultTo(dudeConfig.strobePeriod, STROBE_PERIOD_DEFAULT)
                         ELSE Undefined,
        sinceFlip    |-> IF strobe THEN Num(0) ELSE Undefined,
        firstEdge    |-> Undefined,
        testColors   |-> Undefined,
        positionParam |-> Undefined,
        on           |-> TRUE ]

\* the Test gradient without the inversion at odd indexes
testColorRamp(i, stripLength) ==
  LET scaled == Mul(Frac(i + 1, stripLength), Num(255))
  IN  <<scaled, scaled, scaled>>

\* the Test gradient: [color, color, color] at index i (0-based)
testColor(i, stripLength) ==
  LET color    == Frac(i + 1, stripLength)
      inverted == IF i % 2 # 0 THEN Sub(Num(1), color) ELSE color
      scaled   == Mul(inverted, Num(255))
  IN  <<scaled, scaled, scaled>>

\* the strobe block carrying the excess over the period into the next interval
strobeTickCarry(dude, dt) ==
  IF dude.strobe
  THEN LET sinceFlip == Add(dude.sinceFlip, Num(dt))
       IN  IF Le(dude.strobePeriod, sinceFlip)
           THEN [dude EXCEPT !.sinceFlip = Sub(sinceFlip, dude.strobePeriod),
                             !.on = ~dude.on]
           ELSE [dude EXCEPT !.sinceFlip = sinceFlip]
  ELSE dude

\* the strobe block at the end of timeTick
strobeTick(dude, dt) ==
  IF dude.strobe
  THEN LET sinceFlip == Add(dude.sinceFlip, Num(dt))
       IN  IF Le(dude.strobePeriod, sinceFlip)
           THEN [dude EXCEPT !.sinceFlip = Num(0), !.on = ~dude.on]
           ELSE [dude EXCEPT !.sinceFlip = sinceFlip]
  ELSE dude

\* timeTick without the early return for Constant mode: a Constant emitter is
\* ticked as a Test emitter is
timeTickNoReturn(dude, t, dt) ==
  IF dude.mode \in {"constant", "test"}
  THEN strobeTick([dude EXCEPT !.testColors =
                     [i \in 1..dude.stripLength |-> testColor(i - 1, dude.stripLength)]],
                  dt)
  ELSE IF dude.mode = "classic"
       THEN strobeTick([dude EXCEPT !.positionParam = Num(0)], dt)
       ELSE strobeTick(dude, dt)

\* Dude.timeTick(t, dt).  The Classic and FM phase (timeParam, positionParam,
\* positionDelta, D) feeds only Math.sin, whose value positionTick takes as `level`.
\* The Classic accumulator positionParam is kept relative to the value this timeTick
\* assigns to it and in units of positionDelta: 0 here, + 1 for each += positionDelta.
timeTick(dude, t, dt) ==
  IF dude.mode = "constant" THEN dude
  ELSE IF dude.mode = "stripes"
       THEN strobeTick([dude EXCEPT !.firstEdge =
                          Add(Mul(Mul(Num(t), STRIPES_TIME_SCALE), dude.speed),
                              OrZero(dude.offset))],
                       dt)
  ELSE IF dude.mode = "test"
       THEN strobeTick([dude EXCEPT !.testColors =
                          [i \in 1..dude.stripLength |-> testColor(i - 1, dude.stripLength)]],
                       dt)
       ELSE IF dude.mode = "classic"
            THEN strobeTick([dude EXCEPT !.positionParam = Num(0)], dt)
            ELSE strobeTick(dude, dt)

\* level * scale + offset clamped to [0, 1], when scale or offset is truthy
rescale(dude, level) ==
  IF (dude.scale # Num(0) /\ dude.scale # NaN) \/ (dude.offset # Num(0) /\ dude.offset # NaN)
  THEN MathMax(Num(0), MathMin(Num(1), Add(Mul(level, dude.scale), dude.offset)))
  ELSE level

\* the Stripes ramp, after the edge distances: scale is toLeftEdge over half the
\* anti-alias width within that distance of either edge, 1 elsewhere, and is
\* inverted where inStripe is 0
stripeRamp(inStripe, toLeftEdge, toRightEdge) ==
  LET halfWidth == Div(ANTI_ALIAS_WIDTH, Num(2))
      scale     == IF Lt(toLeftEdge, halfWidth) THEN Div(toLeftEdge, halfWidth)
                   ELSE IF Lt(toRightEdge, halfWidth) THEN Div(toLeftEdge, halfWidth)
                   ELSE Num(1)
  IN  IF inStripe = Num(0) THEN Sub(Num(1), scale) ELSE scale

\* the edge distances of a position toFirstEdge past the first edge
stripeEdges(toFirstEdge, width) ==
  stripeRamp(Rem(MathFloor(Div(toFirstEdge, width)), Num(2)),
             Rem(toFirstEdge, width),
             Sub(width, Rem(toFirstEdge, width)))

\* the factor by which Stripes mode scales the base colour at a position
stripeScale(position, firstEdge, width) == stripeEdges(Sub(position, firstEdge), width)

\* the Classic accumulator left as timeTick set it
advanceParamNot(dude) == dude

\* this.positionParam += this.positionDelta
advanceParam(dude) == [dude EXCEPT !.positionParam = Add(dude.positionParam, Num(1))]

\* Dude.positionTick(t, dt, position) below the strobe gate -> [threw, rgb, dude]:
\* the colour returned, or threw when TypeError('this should never happen') is
\* raised, and the emitter after the call.  `level` is the value of the mode's sine
\* expression raised to `power`, a number in [0, 1].
positionSample(dude, position, level) ==
  IF dude.mode = "test"
  THEN IF dude.testColors = Undefined
       THEN [threw |-> TRUE, rgb |-> Undefined, dude |-> dude]
       ELSE [threw |-> FALSE, rgb |-> dude.testColors[position + 1], dude |-> dude]
  ELSE IF dude.mode = "constant" THEN [threw |-> FALSE, rgb |-> dude.rgb, dude |-> dude]
  ELSE IF dude.mode = "stripes"
  THEN IF dude.firstEdge = Undefined
       THEN [threw |-> TRUE, rgb |-> Undefined, dude |-> dude]
       ELSE [threw |-> FALSE,
             rgb   |-> [index \in 1..3 |->
                          Mul(dude.rgb[index],
                              stripeScale(Num(position), dude.firstEdge, dude.width))],
             dude  |-> dude]
  ELSE IF dude.mode = "classic"
  THEN IF dude.positionParam = Undefined \/ dude.scale = Undefined \/ dude.offset = Undefined
       THEN [threw |-> TRUE, rgb |-> Undefined, dude |-> dude]
       ELSE [threw |-> FALSE,
             rgb   |-> [index \in 1..3 |-> Mul(dude.rgb[index], rescale(dude, level))],
             dude  |-> advanceParam(dude)]
  ELSE [threw |-> FALSE, rgb |-> [index \in 1..3 |-> Mul(dude.rgb[index], level)],
        dude |-> dude]

\* positionTick sampling first and blacking out a strobed-off emitter afterwards
positionTickGateAfter(dude, position, level) ==
  IF dude.strobe /\ ~dude.on /\ ~positionSample(dude, position, level).threw
  THEN [positionSample(dude, position, level) EXCEPT !.rgb = Black]
  ELSE positionSample(dude, position, level)

\* Dude.positionTick(t, dt, position): a strobed-off emitter returns black at once
positionTick(dude, position, level) ==
  IF dude.strobe /\ ~dude.on THEN [threw |-> FALSE, rgb |-> Black, dude |-> dude]
  ELSE positionSample(dude, position, level)

(***************************************************************************)
(* State                                                                   *)
(***************************************************************************)
VARIABLES
  config,               \* the Config: ledType, stripLength, dudes, schedule (has...: the
                        \* key is present; a missing stripLength bounds every loop
                        \* `position < undefined` as 0 does)
  opts,                 \* the Opts: ignoreSchedule
  dudes,                \* DudeManager.dudes
  dudesInterval,        \* handle of the animation timer, 0 when undefined
  scheduleInterval,     \* handle of the scheduler timer, 0 when undefined
  currentScheduleRule,  \* index in config.schedule of the active rule, 0 when undefined
  paused,               \* DudeManager.paused
  timers,               \* the live animation timers: handle -> closure of start()
  scheduleLive,         \* the scheduler timer is live
  now,                  \* wall clock, time of day <<hours, minutes>>
  t,                    \* wall clock, milliseconds (+new Date())
  proc,                 \* "running", "exited" (process.exit) or "crashed" (uncaught throw)
  pixelData,            \* the sink's frame buffer: index -> colour written and not
                        \* yet consumed, Undefined for an empty slot
  device,               \* what the strip or terminal shows: index -> colour, Undefined
                        \* where nothing was ever drawn or the terminal was cleared
  lastCmd,              \* the last command the manager gave the sink
  calls,                \* the calls the last handler made, in order
  threw,                \* the last public call (the constructor, pause, resume) raised
                        \* an error
  probe,                \* a direct application of blendColors: arguments and results
  sinkReady             \* the sink's asynchronous init has finished: DummyController.term
                        \* and DotstarController.strip are set

vars == <<config, opts, sinkReady, dudes, dudesInterval, scheduleInterval, currentScheduleRule,
          paused, timers, scheduleLive, now, t, proc, pixelData, device, lastCmd, calls,
          threw, probe>>

\* one entry of `calls`; param is the dude's positionParam when a positionTick returns
Call(op, dude, position, rgb) ==
  [op |-> op, dude |-> dude, position |-> position, rgb |-> rgb, dt |-> 0,
   param |-> Undefined]

(***************************************************************************)
(* Bounds and the inputs the model draws from                              *)
(***************************************************************************)
MaxT == 30

MaxTimers == 2

MaxFrames == 2

MaxLongT == 1400

\* the values Math.sin-derived levels are drawn from
Levels == {Num(0), Frac(1, 2), Num(1)}

\* elapsed milliseconds between two events: in the emitter specifications, and in
\* the lifecycle specification
FineSteps == {5, 25}

CoarseSteps == {25}

\* the times of day the clock visits, in order; after the last comes the next day
DayTimes == << <<5, 0>>, <<13, 59>>, <<14, 0>>, <<14, 30>>, <<15, 0>>, <<15, 30>>, <<23, 0>> >>

\* every minute of the day, in order
AllMinutes == [k \in 1..1440 |-> <<(k - 1) \div 60, (k - 1) % 60>>]

(***************************************************************************)
(* Strip sink                                                              *)
(***************************************************************************)
\* DummyController.setPixel and Ws281xController.setPixel -> [threw, pixelData]:
\* an Error for index < 0 and for index > stripLength; the dummy's array takes the
\* colour at any other index (at stripLength it grows by one), the ws281x's
\* Uint32Array of stripLength elements drops a write past its end
setPixel(ledType, pixels, stripLength, index, rgb) ==
  IF index < 0 \/ index > stripLength
  THEN [threw |-> TRUE, pixelData |-> pixels]
  ELSE IF ledType = "ws281x" /\ index \notin DOMAIN pixels
  THEN [threw |-> FALSE, pixelData |-> pixels]
  ELSE [threw |-> FALSE,
        pixelData |-> [p \in (DOMAIN pixels) \cup {index} |->
                         IF p = index THEN rgb ELSE pixels[p]]]

\* update() -> [pixelData, device].  DummyController pops every pixel off its array
\* and draws it on the terminal; DotstarController syncs and Ws281xController
\* renders the frame buffer, which they keep
sinkUpdate(ledType, pixels, shown) ==
  [ pixelData |-> IF ledType = "dummy" THEN [p \in DOMAIN pixels |-> Undefined] ELSE pixels,
    device    |-> pixels ]

\* off() -> [pixelData, device].  DummyController clears the terminal;
\* DotstarController sets the pixels 0 .. stripLength - 1 of the frame buffer to
\* black and does not sync; Ws281xController resets the driver, which blanks the
\* strip
sinkOff(ledType, pixels, shown, stripLength) ==
  IF ledType = "dotstar"
  THEN [ pixelData |-> [p \in DOMAIN pixels |->
                          IF p < stripLength THEN Black ELSE pixels[p]],
         device    |-> shown ]
  ELSE IF ledType = "ws281x"
  THEN [ pixelData |-> pixels, device |-> [p \in DOMAIN shown |-> Black] ]
  ELSE [ pixelData |-> pixels, device |-> [p \in DOMAIN shown |-> Undefined] ]

\* if (!this.term) throw new Error('... called before term initialized'): update()
\* and off() of a DummyController whose initTerm() has not finished
sinkThrows == config.ledType = "dummy" /\ ~sinkReady

\* this.strip?.set / this.strip?.sync: a DotstarController whose init() has not
\* finished drops every command
sinkDrops == config.ledType = "dotstar" /\ ~sinkReady

(***************************************************************************)
(* Animation loop                                                          *)
(***************************************************************************)
\* the smallest handle that names no live timer and is not the stored handle
NewHandle(live, stored) ==
  CHOOSE h \in 1..(MaxTimers + 1) :
    /\ h \notin live /\ h # stored
    /\ \A g \in 1..(h - 1) : g \in live \/ g = stored

\* start(): the closure variables of the new interval timer
start(tv) == [frames |-> 0, sinceFpsPrint |-> 0, tLast |-> tv]

\* every dude ticked twice in a frame
timeTickAllTwice(ds, tv, dt) ==
  [i \in DOMAIN ds |-> timeTick(timeTick(ds[i], tv, dt), tv, dt)]

\* this.dudes.forEach((dude) => dude.timeTick(t, dt))
timeTickAll(ds, tv, dt) == [i \in DOMAIN ds |-> timeTick(ds[i], tv, dt)]

timeTickCalls(ds, dt) ==
  [i \in DOMAIN ds |-> [Call("timeTick", i, 0, Undefined) EXCEPT !.dt = dt]]

\* the fold taken from the last dude to the first
RECURSIVE reduceBlendReversed(_, _, _)
reduceBlendReversed(ds, rgbs, n) ==
  IF n = 0 THEN Black
  ELSE blendColors(ds[Len(ds) - n + 1].blendMode, reduceBlendReversed(ds, rgbs, n - 1),
                   rgbs[Len(ds) - n + 1])

\* .reduce((rgbSum, [dude, rgb]) => blendColors(dude.blendMode, rgbSum, rgb), [0, 0, 0])
RECURSIVE reduceBlend(_, _, _)
reduceBlend(ds, rgbs, n) ==
  IF n = 0 THEN Black
  ELSE blendColors(ds[n].blendMode, reduceBlend(ds, rgbs, n - 1), rgbs[n])

\* the level the sine oracle gives dude i at this position
LevelAt(osc, i, position) ==
  IF <<i, position>> \in DOMAIN osc THEN osc[<<i, position>>] ELSE Num(1)

\* the map sampling the dudes from the last to the first
mapPositionTickReversed(ds, osc, position) ==
  LET res   == [i \in DOMAIN ds |-> positionTick(ds[i], position, LevelAt(osc, i, position))]
      bad   == {i \in DOMAIN ds : res[i].threw}
      first == IF bad = {} THEN 1 ELSE CHOOSE i \in bad : \A j \in bad : i >= j
  IN  [ rgbs  |-> [i \in DOMAIN ds |-> res[i].rgb],
        dudes |-> [i \in DOMAIN ds |-> IF i >= first THEN res[i].dude ELSE ds[i]],
        calls |-> [i \in 1..(Len(ds) - first + 1)
                     |-> [Call("positionTick", Len(ds) - i + 1, position,
                               res[Len(ds) - i + 1].rgb)
                            EXCEPT !.param = res[Len(ds) - i + 1].dude.positionParam]],
        threw |-> bad # {} ]

\* this.dudes.map((dude) => [dude, dude.positionTick(t, dt, position)]) at one
\* position, in configuration order up to the first dude that throws:
\* -> [rgbs, dudes, calls, threw]; a call's rgb is the colour it returned
mapPositionTick(ds, osc, position) ==
  LET res   == [i \in DOMAIN ds |-> positionTick(ds[i], position, LevelAt(osc, i, position))]
      bad   == {i \in DOMAIN ds : res[i].threw}
      last  == IF bad = {} THEN Len(ds) ELSE CHOOSE i \in bad : \A j \in bad : i <= j
  IN  [ rgbs  |-> [i \in DOMAIN ds |-> res[i].rgb],
        dudes |-> [i \in DOMAIN ds |-> IF i <= last THEN res[i].dude ELSE ds[i]],
        calls |-> [i \in 1..last |->
                     [Call("positionTick", i, position, res[i].rgb)
                        EXCEPT !.param = res[i].dude.positionParam]],
        threw |-> bad # {} ]

RECURSIVE positionLoop(_, _, _, _, _)
\* one position, after the dudes were sampled: blend, clamp, setPixel (position is
\* below stripLength, so setPixel raises no error here)
positionStep(ds, osc, stripLength, position, st, sampled, color) ==
  IF sampled.threw
  THEN [st EXCEPT !.dudes = sampled.dudes, !.calls = st.calls \o sampled.calls,
                  !.threw = TRUE]
  ELSE positionLoop(sampled.dudes, osc, stripLength, position + 1,
         [st EXCEPT !.dudes = sampled.dudes,
                    !.calls = st.calls \o sampled.calls
                                \o <<Call("setPixel", 0, position, color)>>,
                    !.pixelData = IF sinkDrops THEN st.pixelData
                                  ELSE setPixel(config.ledType, st.pixelData, stripLength,
                                                position, color).pixelData])

\* the colour written at one position from the dudes' samples
positionColor(ds, sampled) ==
  IF sampled.threw THEN Undefined ELSE clampRgb(reduceBlend(ds, sampled.rgbs, Len(ds)))

\* one position, after the map over the dudes
positionSampled(ds, osc, stripLength, position, st, sampled) ==
  positionStep(ds, osc, stripLength, position, st, sampled, positionColor(ds, sampled))

\* the position loop for positions position..stripLength-1, stopping at a throw:
\* st = [dudes, pixelData, calls, threw]
positionLoop(ds, osc, stripLength, position, st) ==
  IF position >= stripLength \/ st.threw THEN st
  ELSE positionSampled(ds, osc, stripLength, position, st,
                       mapPositionTick(ds, osc, position))

\* the fps report once the accumulator reaches 1000 ms
reportDueAtLeast(since) == since >= 1000

\* if (sinceFpsPrint > 1000)
reportDue(since) == since > 1000

\* the end of the interval callback, after the position loop: the fps report and
\* update() -> [dudes, closure, pixelData, device, calls, threw]
frameEnd(closure, tv, dt, ticked, looped) ==
  LET frames  == closure.frames + 1
      since   == closure.sinceFpsPrint + dt
      report  == reportDue(since)
  IN  IF looped.threw
      THEN [dudes |-> looped.dudes, closure |-> [closure EXCEPT !.tLast = tv],
            pixelData |-> looped.pixelData, device |-> device,
            calls |-> looped.calls, threw |-> TRUE]
      ELSE [dudes |-> looped.dudes,
            closure |-> [frames        |-> IF report THEN 0 ELSE frames,
                         sinceFpsPrint |-> IF report THEN 0 ELSE since,
                         tLast         |-> tv],
            pixelData |-> IF sinkThrows \/ sinkDrops THEN looped.pixelData
                          ELSE sinkUpdate(config.ledType, looped.pixelData, device).pixelData,
            device |-> IF sinkThrows \/ sinkDrops THEN device
                       ELSE sinkUpdate(config.ledType, looped.pixelData, device).device,
            calls |-> looped.calls
                      \o (IF report THEN <<Call("log", 0, 0, Undefined)>> ELSE <<>>)
                      \o <<Call("update", 0, 0, Undefined)>>,
            threw |-> sinkThrows]

\* the position loop over the dudes after their timeTick
frameLoop(closure, pixels, stripLength, tv, dt, osc, ticked) ==
  frameEnd(closure, tv, dt, ticked,
           positionLoop(ticked, osc, stripLength, 0,
             [dudes |-> ticked, pixelData |-> pixels, calls |-> timeTickCalls(ticked, dt),
              threw |-> FALSE]))

\* the interval callback of start(), run to completion:
\* -> [dudes, closure, pixelData, device, calls, threw]
frame(ds, closure, pixels, stripLength, tv, osc) ==
  frameLoop(closure, pixels, stripLength, tv, tv - closure.tLast, osc,
            timeTickAll(ds, tv, tv - closure.tLast))

(***************************************************************************)
(* DudeManager                                                             *)
(***************************************************************************)
\* the fields checkSchedule, pause and resume read and write
Mgr == [ dudesInterval       |-> dudesInterval,
         currentScheduleRule |-> currentScheduleRule,
         paused              |-> paused,
         timers              |-> timers,
         pixelData           |-> pixelData,
         device              |-> device,
         lastCmd             |-> lastCmd,
         calls               |-> <<>>,
         threw               |-> FALSE ]

\* this.controller.off(); the DummyController's raises an error before its terminal
\* is set, the DotstarController's does nothing before its strip is set
off(m) ==
  IF sinkThrows
  THEN [m EXCEPT !.calls = m.calls \o <<Call("off", 0, 0, Undefined)>>, !.threw = TRUE]
  ELSE IF sinkDrops
  THEN [m EXCEPT !.lastCmd = "off", !.calls = m.calls \o <<Call("off", 0, 0, Undefined)>>]
  ELSE
  [m EXCEPT !.lastCmd = "off",
            !.calls = m.calls \o <<Call("off", 0, 0, Undefined)>>,
            !.pixelData = sinkOff(config.ledType, m.pixelData, m.device,
                                  config.stripLength).pixelData,
            !.device = sinkOff(config.ledType, m.pixelData, m.device,
                               config.stripLength).device]

\* clearInterval(handle)
clearInterval(live, handle) == [h \in (DOMAIN live) \ {handle} |-> live[h]]

\* setInterval in start(): the new timer's closure joins the live timers
setInterval(live, handle, tv) ==
  [h \in (DOMAIN live) \cup {handle} |-> IF h = handle THEN start(tv) ELSE live[h]]

\* a window test that takes a rule ending before it starts as crossing midnight
inWindowWrapping(date, rule) ==
  IF isAfter(rule.start, rule.end)
  THEN isAfter(date, rule.start) \/ ~isAfter(date, rule.end)
  ELSE isAfter(date, rule.start) /\ ~isAfter(date, rule.end)

\* isAfter(now, rule.start) && !isAfter(now, rule.end)
inWindow(date, rule) == isAfter(date, rule.start) /\ ~isAfter(date, rule.end)

\* a loop over the rules that goes on past a match: the last matching rule wins
lastMatch(schedule, date) ==
  IF \E k \in DOMAIN schedule : inWindow(date, schedule[k])
  THEN CHOOSE k \in DOMAIN schedule :
         /\ inWindow(date, schedule[k])
         /\ \A j \in (k + 1)..Len(schedule) : ~inWindow(date, schedule[j])
  ELSE 0

\* schedule.every(...) stops at the first rule whose callback returns undefined:
\* the index of that rule, 0 when every rule returned true
firstMatch(schedule, date) ==
  IF \E k \in DOMAIN schedule : inWindow(date, schedule[k])
  THEN CHOOSE k \in DOMAIN schedule :
         /\ inWindow(date, schedule[k])
         /\ \A j \in 1..(k - 1) : ~inWindow(date, schedule[j])
  ELSE 0

\* checkSchedule whose window-end branch stops the loop but keeps the rule active
checkScheduleKeepsRule(cfg, m, date, tv) ==
  IF m.currentScheduleRule = 0
  THEN IF ~cfg.hasSchedule THEN [m EXCEPT !.threw = TRUE]
       ELSE LET k == IF \E j \in DOMAIN cfg.schedule : inWindow(date, cfg.schedule[j])
                     THEN CHOOSE j \in DOMAIN cfg.schedule :
                            /\ inWindow(date, cfg.schedule[j])
                            /\ \A i \in 1..(j - 1) : ~inWindow(date, cfg.schedule[i])
                     ELSE 0
                h == NewHandle(DOMAIN m.timers, m.dudesInterval)
            IN  IF k # 0
                THEN [m EXCEPT !.dudesInterval = h,
                               !.timers = setInterval(m.timers, h, tv),
                               !.currentScheduleRule = k,
                               !.calls = m.calls \o <<Call("start", 0, 0, Undefined)>>]
                ELSE m
  ELSE IF m.dudesInterval # 0 /\ isAfter(date, cfg.schedule[m.currentScheduleRule].end)
       THEN [off([m EXCEPT !.timers = clearInterval(m.timers, m.dudesInterval)])
               EXCEPT !.dudesInterval = 0]
       ELSE m

\* checkSchedule(); this.config.schedule.every raises a TypeError when
\* config.schedule is undefined
checkSchedule(cfg, m, date, tv) ==
  IF m.currentScheduleRule = 0
  THEN IF ~cfg.hasSchedule THEN [m EXCEPT !.threw = TRUE]
       ELSE LET k == firstMatch(cfg.schedule, date)
                h == NewHandle(DOMAIN m.timers, m.dudesInterval)
            IN  IF k # 0
                THEN [m EXCEPT !.dudesInterval = h,
                               !.timers = setInterval(m.timers, h, tv),
                               !.currentScheduleRule = k,
                               !.calls = m.calls \o <<Call("start", 0, 0, Undefined)>>]
                ELSE m
  ELSE IF m.dudesInterval # 0 /\ isAfter(date, cfg.schedule[m.currentScheduleRule].end)
       THEN LET stopped == off([m EXCEPT !.timers = clearInterval(m.timers, m.dudesInterval)])
            IN  IF stopped.threw THEN stopped
                ELSE [stopped EXCEPT !.dudesInterval = 0, !.currentScheduleRule = 0]
       ELSE m

\* pause() forgetting the timer's handle without cancelling the timer
pauseNoClear(m) ==
  IF ~m.paused
  THEN off([m EXCEPT !.paused = TRUE, !.dudesInterval = 0, !.currentScheduleRule = 0])
  ELSE m

\* pause()
pause(m) ==
  IF ~m.paused
  THEN off([m EXCEPT !.paused = TRUE,
                     !.timers = IF m.dudesInterval # 0
                                THEN clearInterval(m.timers, m.dudesInterval)
                                ELSE m.timers,
                     !.dudesInterval = 0,
                     !.currentScheduleRule = 0])
  ELSE m

\* resume()
resume(cfg, m, date, tv) ==
  IF m.paused
  THEN LET cleared == off([m EXCEPT !.paused = FALSE])
       IN  IF cleared.threw THEN cleared ELSE checkSchedule(cfg, cleared, date, tv)
  ELSE m

\* the state a manager operation leaves behind
Apply(m) ==
  /\ dudesInterval' = m.dudesInterval
  /\ currentScheduleRule' = m.currentScheduleRule
  /\ paused' = m.paused
  /\ timers' = m.timers
  /\ pixelData' = m.pixelData
  /\ device' = m.device
  /\ lastCmd' = m.lastCmd
  /\ calls' = m.calls
  /\ threw' = m.threw

\* lastDude && dudeConfig.linked ? lastDude.seed : undefined, for the n-th dude
\* (1-based) and the dudes made before it
linkedSeed(made, dudeConfig, n) ==
  IF n > 1 /\ dudeConfig.linked THEN made[n - 1].seed ELSE Undefined

\* { seed, ...dudeConfig }: a seed in the dude's config replaces the linked one
spreadSeed(seed, dudeConfig) ==
  [dudeConfig EXCEPT !.seed = IF dudeConfig.seed # Undefined THEN dudeConfig.seed ELSE seed]

\* config.dudes.map(...) over the first n dudes, in order
RECURSIVE mapDudes(_, _)
mapDudes(cfg, n) ==
  IF n = 0 THEN <<>>
  ELSE LET made == mapDudes(cfg, n - 1)
       IN  Append(made,
                  NewDude(spreadSeed(linkedSeed(made, cfg.dudes[n], n), cfg.dudes[n]),
                          cfg.stripLength, cfg.draws[n]))

\* getLedController(config): the sink's constructor raises an error.  Only the
\* Ws281xController tests the strip length (isNaN(undefined) is true); new
\* Array(undefined) in the DummyController is an array of one empty slot, and the
\* DotstarController reads the strip length in its asynchronous init only
controllerThrows(cfg) == cfg.ledType = "ws281x" /\ ~cfg.hasStripLength

\* a constructor that accepts a missing or empty dudes array
validDudesAny(cfg) == TRUE

\* config.dudes && config.dudes.length
validDudes(cfg) == cfg.hasDudes /\ Len(cfg.dudes) > 0

\* the sink's frame buffer after construction
newPixelData(cfg) ==
  IF cfg.hasStripLength THEN [position \in 0..(cfg.stripLength - 1) |-> Undefined]
  ELSE [position \in {0} |-> Undefined]

\* new DudeManager(config, opts) at time of day date, millisecond 0.  An error
\* raised in the constructor is uncaught by its caller and ends the process: the
\* manager's fields stay as they were when it was raised.
NewManager(cfg, o, date) ==
  LET m0 == [ dudesInterval |-> 0, currentScheduleRule |-> 0, paused |-> FALSE,
              timers |-> <<>>, pixelData |-> newPixelData(cfg),
              device |-> [position \in 0..(cfg.stripLength - 1) |-> Undefined],
              lastCmd |-> "none", calls |-> <<>>, threw |-> FALSE ]
      failed == controllerThrows(cfg) \/ ~validDudes(cfg)
      immediate == o.ignoreSchedule \/ ~cfg.hasSchedule
      m1 == IF failed THEN m0
            ELSE IF immediate
            THEN [m0 EXCEPT !.dudesInterval = 1, !.timers = setInterval(<<>>, 1, 0),
                            !.calls = <<Call("start", 0, 0, Undefined)>>]
            ELSE checkSchedule(cfg, m0, date, 0)
  IN  /\ config = cfg
      /\ opts = o
      /\ dudes = IF failed THEN <<>>
                 ELSE mapDudes(cfg, Len(cfg.dudes))
      /\ dudesInterval = m1.dudesInterval
      /\ currentScheduleRule = m1.currentScheduleRule
      /\ paused = FALSE
      /\ timers = m1.timers
      /\ scheduleInterval = IF failed \/ immediate THEN 0 ELSE 1
      /\ scheduleLive = (~failed /\ ~immediate)
      /\ now = date
      /\ t = 0
      /\ proc = IF failed THEN "crashed" ELSE "running"
      /\ pixelData = m1.pixelData
      /\ device = m1.device
      /\ lastCmd = m1.lastCmd
      /\ calls = m1.calls
      /\ threw = failed

\* new DudeManager(config, opts), and the sink's asynchronous init has finished
\* before anything else runs
Construct(cfg, o, date) == NewManager(cfg, o, date) /\ sinkReady = TRUE

\* new DudeManager(config, opts) as it returns: the DummyController's initTerm()
\* and the DotstarController's init() are pending at their await, the
\* Ws281xController's constructor has no asynchronous part
ConstructPending(cfg, o, date) ==
  NewManager(cfg, o, date) /\ sinkReady = (cfg.ledType = "ws281x")

(***************************************************************************)
(* Actions                                                                 *)
(***************************************************************************)
\* the sine oracle of one frame: a level for every oscillating dude and position
Oracles ==
  [ {i \in DOMAIN dudes : dudes[i].mode \in Oscillating} \X (0..(config.stripLength - 1))
      -> Levels ]

\* the interval callback of a live animation timer runs to completion; an error it
\* raises is uncaught and ends the process
\* the state after the callback of timer h returned or threw f
AnimationDone(h, f) ==
  /\ dudes' = f.dudes
  /\ timers' = [timers EXCEPT ![h] = f.closure]
  /\ pixelData' = f.pixelData
  /\ device' = f.device
  /\ calls' = f.calls
  /\ lastCmd' = IF f.threw
                THEN (IF \E c \in DOMAIN f.calls : f.calls[c].op = "setPixel"
                      THEN "setPixel" ELSE lastCmd)
                ELSE "update"
  /\ proc' = IF f.threw THEN "crashed" ELSE "running"

AnimationTick ==
  /\ proc = "running"
  /\ \E h \in DOMAIN timers : \E osc \in Oracles :
       /\ timers[h].frames < MaxFrames
       /\ AnimationDone(h, frame(dudes, timers[h], pixelData, config.stripLength, t, osc))
  /\ UNCHANGED <<probe, config, opts, sinkReady, dudesInterval, scheduleInterval, currentScheduleRule,
                 paused, scheduleLive, now, t, threw>>

\* the scheduler timer's callback: checkSchedule()
ScheduleTick ==
  /\ proc = "running"
  /\ scheduleLive
  /\ Cardinality(DOMAIN timers) < MaxTimers
  /\ Apply(checkSchedule(config, Mgr, now, t))
  /\ proc' = IF checkSchedule(config, Mgr, now, t).threw THEN "crashed" ELSE proc
  /\ UNCHANGED <<probe, config, opts, sinkReady, dudes, scheduleInterval, scheduleLive, now, t>>

\* the sink's pending init resumes after its await: initTerm() sets term and clears
\* the terminal, init() makes the strip
SinkInit ==
  /\ proc = "running"
  /\ ~sinkReady
  /\ sinkReady' = TRUE
  /\ device' = IF config.ledType = "dummy" THEN [p \in DOMAIN device |-> Undefined]
               ELSE device
  /\ calls' = <<>>
  /\ UNCHANGED <<probe, config, opts, dudes, dudesInterval, scheduleInterval,
                 currentScheduleRule, paused, timers, scheduleLive, now, t, proc,
                 pixelData, lastCmd, threw>>

\* the embedding program calls pause()
Pause ==
  /\ proc = "running"
  /\ Apply(pause(Mgr))
  /\ UNCHANGED <<probe, config, opts, sinkReady, dudes, scheduleInterval, scheduleLive, now, t, proc>>

\* the embedding program calls resume()
Resume ==
  /\ proc = "running"
  /\ Cardinality(DOMAIN timers) < MaxTimers
  /\ Apply(resume(config, Mgr, now, t))
  /\ UNCHANGED <<probe, config, opts, sinkReady, dudes, scheduleInterval, scheduleLive, now, t, proc>>

\* a signal handler that cancels the timers and exits without commanding off
SignalNoOff ==
  /\ proc = "running"
  /\ timers' = IF dudesInterval # 0 THEN clearInterval(timers, dudesInterval) ELSE timers
  /\ scheduleLive' = IF scheduleInterval # 0 THEN FALSE ELSE scheduleLive
  /\ calls' = <<>>
  /\ proc' = "exited"
  /\ threw' = FALSE
  /\ UNCHANGED <<probe, config, opts, sinkReady, dudes, dudesInterval, scheduleInterval,
                 currentScheduleRule, paused, now, t, pixelData, device, lastCmd>>

\* SIGTERM or SIGINT: clear both timers if set, off(), process.exit(1)
Signal ==
  /\ proc = "running"
  /\ timers' = IF dudesInterval # 0 THEN clearInterval(timers, dudesInterval) ELSE timers
  /\ scheduleLive' = IF scheduleInterval # 0 THEN FALSE ELSE scheduleLive
  /\ lastCmd' = off(Mgr).lastCmd
  /\ calls' = <<Call("off", 0, 0, Undefined)>>
  /\ pixelData' = off(Mgr).pixelData
  /\ device' = off(Mgr).device
  /\ proc' = IF off(Mgr).threw THEN "crashed" ELSE "exited"
  /\ threw' = FALSE
  /\ UNCHANGED <<probe, config, opts, sinkReady, dudes, dudesInterval, scheduleInterval,
                 currentScheduleRule, paused, now, t>>

\* milliseconds pass
AdvanceTime(steps) ==
  /\ proc = "running"
  /\ \E d \in steps : t + d <= MaxT /\ t' = t + d
  /\ UNCHANGED <<probe, config, opts, sinkReady, dudes, dudesInterval, scheduleInterval,
                 currentScheduleRule, paused, timers, scheduleLive, now, proc,
                 pixelData, device, lastCmd, calls, threw>>

\* tenths of a second pass
AdvanceTimeLong(steps) ==
  /\ proc = "running"
  /\ \E d \in steps : t + d <= MaxLongT /\ t' = t + d
  /\ UNCHANGED <<probe, config, opts, sinkReady, dudes, dudesInterval, scheduleInterval,
                 currentScheduleRule, paused, timers, scheduleLive, now, proc,
                 pixelData, device, lastCmd, calls, threw>>

\* the time of day moves on to the next of `times`, and from the last to the first
\* (the next day)
AdvanceDay(times) ==
  /\ proc = "running"
  /\ \E k \in DOMAIN times :
       /\ now = times[k]
       /\ now' = times[(k % Len(times)) + 1]
  /\ UNCHANGED <<probe, config, opts, sinkReady, dudes, dudesInterval, scheduleInterval,
                 currentScheduleRule, paused, timers, scheduleLive, t, proc,
                 pixelData, device, lastCmd, calls, threw>>

\* a client of the controller calls setPixel(index, 1, 2, 3); an Error is raised
\* to the caller
SinkSetPixel ==
  /\ proc = "running"
  /\ \E index \in (-1)..(config.stripLength + 1) :
       LET res == setPixel(config.ledType, pixelData, config.stripLength, index,
                           Rgb(1, 2, 3))
       IN  /\ pixelData' = res.pixelData
           /\ threw' = res.threw
           /\ calls' = <<Call("setPixel", 0, index, Rgb(1, 2, 3))>>
           /\ lastCmd' = IF res.threw THEN lastCmd ELSE "setPixel"
  /\ UNCHANGED <<probe, config, opts, sinkReady, dudes, dudesInterval, scheduleInterval,
                 currentScheduleRule, paused, timers, scheduleLive, now, t, proc, device>>

\* no direct application of blendColors
NoProbe == [ blendMode |-> "none", base |-> Undefined, a |-> Undefined, b |-> Undefined,
             done |-> FALSE, xa |-> Undefined, ab |-> Undefined, ba |-> Undefined,
             left |-> Undefined, right |-> Undefined ]

\* the arguments of a direct application of blendColors
ProbeOf(blendMode, base, a, b) ==
  [NoProbe EXCEPT !.blendMode = blendMode, !.base = base, !.a = a, !.b = b]

\* blendColors applied to the arguments in `probe`: xa blends a onto base; ab and ba
\* fold a and b from black in the two orders; left blends a and then b onto base,
\* right blends onto base the blend of b onto a
BlendColorsCall ==
  /\ probe.blendMode # "none" /\ ~probe.done
  /\ probe' =
       [probe EXCEPT
          !.done  = TRUE,
          !.xa    = blendColors(probe.blendMode, probe.base, probe.a),
          !.ab    = blendColors(probe.blendMode,
                                blendColors(probe.blendMode, Black, probe.a), probe.b),
          !.ba    = blendColors(probe.blendMode,
                                blendColors(probe.blendMode, Black, probe.b), probe.a),
          !.left  = blendColors(probe.blendMode,
                                blendColors(probe.blendMode, probe.base, probe.a), probe.b),
          !.right = blendColors(probe.blendMode, probe.base,
                                blendColors(probe.blendMode, probe.a, probe.b))]
  /\ UNCHANGED <<config, opts, sinkReady, dudes, dudesInterval, scheduleInterval,
                 currentScheduleRule, paused, timers, scheduleLive, now, t, proc,
                 pixelData, device, lastCmd, calls, threw>>

(***************************************************************************)
(* Configurations                                                          *)
(***************************************************************************)
DudeConfig(mode, rgb, blendMode, strobe, strobePeriod, scale, offset) ==
  [ mode |-> mode, rgb |-> rgb, blendMode |-> blendMode, strobe |-> strobe,
    strobePeriod |-> strobePeriod, scale |-> scale, offset |-> offset,
    linked |-> FALSE, seed |-> Undefined, speed |-> Undefined, width |-> Undefined ]

Rule(start_, end_) == [start |-> start_, end |-> end_]

Afternoon == Rule(<<14, 0>>, <<15, 0>>)

Overlap == Rule(<<14, 30>>, <<15, 30>>)

Overnight == Rule(<<22, 0>>, <<6, 0>>)

\* the schedules: config.schedule, or none configured
Schedules ==
  { [hasSchedule |-> FALSE, schedule |-> <<>>],
    [hasSchedule |-> TRUE,  schedule |-> <<Afternoon>>],
    [hasSchedule |-> TRUE,  schedule |-> <<Afternoon, Overlap>>],
    [hasSchedule |-> TRUE,  schedule |-> <<Overnight, Overlap>>] }

ConstantDude == DudeConfig("constant", Rgb(10, 20, 30), "SUM", FALSE, Undefined,
                           Undefined, Undefined)

StrobeDude == DudeConfig(Omitted, Rgb(255, 0, 100), Omitted, TRUE, Num(10),
                         Undefined, Undefined)

ClassicDude == DudeConfig("classic", Rgb(255, 0, 100), "AVERAGE", FALSE, Undefined,
                          Undefined, Undefined)

\* the emitter lists of the lifecycle specification
DudeLists == { <<ConstantDude>>, <<ClassicDude>> }

\* draws: the seeds Math.random() gives the dudes' constructors, one a dude
MakeConfig(stripLength, ds, sch) ==
  [ ledType |-> "dummy", hasStripLength |-> TRUE, stripLength |-> stripLength,
    hasDudes |-> TRUE, dudes |-> ds, draws |-> [i \in DOMAIN ds |-> Num(-125)],
    hasSchedule |-> sch.hasSchedule, schedule |-> sch.schedule ]

Init ==
  /\ probe = NoProbe
  /\ \E ds \in DudeLists : \E sch \in Schedules : \E ignore \in BOOLEAN :
       \E k \in DOMAIN DayTimes :
         Construct(MakeConfig(2, ds, sch), [ignoreSchedule |-> ignore], DayTimes[k])

Next ==
  \/ AnimationTick
  \/ ScheduleTick
  \/ Pause
  \/ Resume
  \/ Signal
  \/ AdvanceTime(CoarseSteps)
  \/ AdvanceDay(DayTimes)

Spec == Init /\ [][Next]_vars

(***************************************************************************)
(* The blend pipeline: immediate mode, two emitters of every blend mode    *)
(***************************************************************************)
NoSchedule == [hasSchedule |-> FALSE, schedule |-> <<>>]

BlendDudes ==
  { DudeConfig(mode, Rgb(255, 0, 100), blendMode, FALSE, Undefined, Undefined, Undefined) :
      mode \in {"constant", "fm"}, blendMode \in BlendModes }

InitBlend ==
  /\ probe = NoProbe
  /\ \E d1 \in BlendDudes : \E d2 \in BlendDudes :
       Construct(MakeConfig(1, <<d1, d2>>, NoSchedule), [ignoreSchedule |-> FALSE], <<5, 0>>)

NextBlend == AnimationTick

SpecBlend == InitBlend /\ [][NextBlend]_vars

(***************************************************************************)
(* The emitters: immediate mode, strobed and unstrobed emitters, fine time *)
(***************************************************************************)
DefaultStrobeDude == DudeConfig("test", Rgb(255, 0, 100), "AVERAGE", TRUE, Undefined,
                                Undefined, Undefined)

TestDude == DudeConfig("test", Rgb(255, 0, 100), "REPLACE", FALSE, Undefined,
                       Undefined, Undefined)

\* a Constant emitter configured with strobe
ConstantStrobeDude == DudeConfig("constant", Rgb(10, 20, 30), "SUM", TRUE, Num(10),
                                 Undefined, Undefined)

\* a Classic emitter with scale and offset, configured with strobe
ClassicStrobeDude == DudeConfig("classic", Rgb(255, 0, 100), "SUM", TRUE, Num(10),
                                Frac(1, 2), Frac(1, 4))

EmitDudeLists ==
  { <<StrobeDude>>, <<DefaultStrobeDude, ConstantDude>>, <<TestDude, StrobeDude>>,
    <<ConstantDude, ClassicDude, TestDude>>, <<ConstantStrobeDude, ClassicStrobeDude>> }

\* the emitter lists run on a strip of four pixels (the others: two pixels)
LongStripDudeLists == { <<DefaultStrobeDude, ConstantDude>>, <<TestDude, ConstantStrobeDude>> }

InitEmit ==
  /\ probe = NoProbe
  /\ \/ \E ds \in EmitDudeLists :
          Construct(MakeConfig(2, ds, NoSchedule), [ignoreSchedule |-> FALSE], <<5, 0>>)
     \/ \E ds \in LongStripDudeLists :
          Construct(MakeConfig(4, ds, NoSchedule), [ignoreSchedule |-> FALSE], <<5, 0>>)

NextEmit ==
  \/ AnimationTick
  \/ AdvanceTime(FineSteps)

SpecEmit == InitEmit /\ [][NextEmit]_vars

(***************************************************************************)
(* Every mode with the optional fields omitted, alone on a strip of two    *)
(* pixels, and Stripes emitters of several widths and phases, alone on a   *)
(* strip of four pixels                                                    *)
(***************************************************************************)
DudeModes == {"constant", "stripes", "test", "classic", "fm"}

\* an emitter configuration of rgb and mode only
BareDude(mode) == DudeConfig(mode, Rgb(255, 0, 100), Omitted, FALSE, Undefined,
                             Undefined, Undefined)

\* a Stripes emitter; the phase of the stripes at time t is t / 500 + offset
StripesDude(width, offset) ==
  [DudeConfig("stripes", Rgb(255, 0, 100), Omitted, FALSE, Undefined, Undefined, offset)
     EXCEPT !.width = width]

StripeWidths == {Undefined, Num(1), Num(4)}

StripeOffsets == {Undefined, Num(-3), Frac(-1, 2), Num(2)}

InitModes ==
  /\ probe = NoProbe
  /\ \/ \E mode \in DudeModes :
          Construct(MakeConfig(2, <<BareDude(mode)>>, NoSchedule),
                    [ignoreSchedule |-> FALSE], <<5, 0>>)
     \/ \E width \in StripeWidths : \E offset \in StripeOffsets :
          Construct(MakeConfig(4, <<StripesDude(width, offset)>>, NoSchedule),
                    [ignoreSchedule |-> FALSE], <<5, 0>>)

SpecModes == InitModes /\ [][NextEmit]_vars

(***************************************************************************)
(* Scheduled mode over seconds: a strobing emitter on one pixel, the loop  *)
(* stopped and started again by pause, resume and the window's end         *)
(***************************************************************************)
\* a Test emitter that flips once a second
SlowStrobeDude == DudeConfig("test", Rgb(255, 0, 100), "SUM", TRUE, Num(1000),
                             Undefined, Undefined)

\* a Classic emitter with scale and offset that flips once a second
SlowClassicDude == DudeConfig("classic", Rgb(255, 0, 100), "SUM", TRUE, Num(1000),
                              Frac(1, 2), Frac(1, 4))

LongSteps == {300, 700}

\* inside the window, its end, and the next day before the window
CycleTimes == << <<14, 0>>, <<15, 0>>, <<5, 0>> >>

InitCycle ==
  /\ probe = NoProbe
  /\ \E ds \in { <<SlowStrobeDude>>, <<SlowClassicDude>> } :
       Construct(MakeConfig(1, ds, [hasSchedule |-> TRUE, schedule |-> <<Afternoon>>]),
                 [ignoreSchedule |-> FALSE], <<14, 0>>)

NextCycle ==
  \/ AnimationTick
  \/ ScheduleTick
  \/ Pause
  \/ Resume
  \/ AdvanceTimeLong(LongSteps)
  \/ AdvanceDay(CycleTimes)

SpecCycle == InitCycle /\ [][NextCycle]_vars

(***************************************************************************)
(* Schedules of rules that end at or before their start                    *)
(***************************************************************************)
\* a rule that ends when it starts
Instant == Rule(<<14, 0>>, <<14, 0>>)

InitOvernight ==
  /\ probe = NoProbe
  /\ \E sch \in { <<Overnight>>, <<Instant>>, <<Overnight, Instant>> } :
       \E ignore \in BOOLEAN : \E k \in DOMAIN DayTimes :
         Construct(MakeConfig(1, <<ConstantDude>>,
                              [hasSchedule |-> TRUE, schedule |-> sch]),
                   [ignoreSchedule |-> ignore], DayTimes[k])

SpecOvernight == InitOvernight /\ [][Next]_vars

(***************************************************************************)
(* One Constant emitter of colour (10,20,30) on a strip of three pixels,   *)
(* through the whole lifecycle                                             *)
(***************************************************************************)
InitConstant ==
  /\ probe = NoProbe
  /\ \E sch \in Schedules : \E ignore \in BOOLEAN : \E k \in DOMAIN DayTimes :
       Construct(MakeConfig(3, <<ConstantDude>>, sch), [ignoreSchedule |-> ignore],
                 DayTimes[k])

SpecConstant == InitConstant /\ [][Next]_vars

(***************************************************************************)
(* blendColors applied directly: every blend mode over colours of whole    *)
(* and half channel values, and Sum over binary64 colours                  *)
(***************************************************************************)
ProbeColors ==
  { Black, Rgb(255, 0, 100), <<Frac(255, 2), Num(0), Num(50)>>, Rgb(10, 20, 30),
    Rgb(0, 200, 0) }

InitBlendFn ==
  /\ Construct(MakeConfig(1, <<ConstantDude>>, NoSchedule), [ignoreSchedule |-> FALSE],
               <<5, 0>>)
  /\ \E blendMode \in BlendModes : \E base \in ProbeColors :
       \E a \in ProbeColors : \E b \in ProbeColors :
         probe = ProbeOf(blendMode, base, a, b)

NextBlendFn == BlendColorsCall

SpecBlendFn == InitBlendFn /\ [][NextBlendFn]_vars

\* the binary64 values 0.1, 0.2 and 0.3
Tenth == F64Hex(<<9, 9, 9, 9, 9, 9, 9, 9, 9, 9, 9, 9, 10>>, -4)

TwoTenths == F64Hex(<<9, 9, 9, 9, 9, 9, 9, 9, 9, 9, 9, 9, 10>>, -3)

ThreeTenths == F64Hex(<<3, 3, 3, 3, 3, 3, 3, 3, 3, 3, 3, 3, 3>>, -2)

\* a colour of binary64 channels with whole values
Rgb64(r, g, b) == <<ToF64(Num(r)), ToF64(Num(g)), ToF64(Num(b))>>

SumColors ==
  { <<Tenth, TwoTenths, ThreeTenths>>, <<TwoTenths, ThreeTenths, Tenth>>,
    <<ThreeTenths, Tenth, TwoTenths>>,
    Rgb64(255, 0, 100), Rgb64(10, 20, 30), Rgb64(0, 200, 1) }

InitSum ==
  /\ Construct(MakeConfig(1, <<ConstantDude>>, NoSchedule), [ignoreSchedule |-> FALSE],
               <<5, 0>>)
  /\ \E base \in SumColors : \E a \in SumColors : \E b \in SumColors :
       probe = ProbeOf("SUM", base, a, b)

SpecSum == InitSum /\ [][NextBlendFn]_vars

(***************************************************************************)
(* scaleSine applied directly.  Math.sin returns a binary64 value between  *)
(* -1 and 1; it is given by its sign and its magnitude, and the rest of    *)
(* the expression is computed in binary64 as the code writes it.           *)
(***************************************************************************)
Half == F64Hex(<<0, 0, 0, 0, 0, 0, 0, 0, 0, 0, 0, 0, 0>>, -1)

\* scaleSine without the final `+ min`
scaleSineNoMin(s, min, max) ==
  LET half == F64Mul(s.mag, Half)
      unit == IF s.neg THEN F64Sub(Half, half) ELSE F64Add(half, Half)
  IN  F64Mul(unit, F64Sub(max, min))

\* (Math.sin(x) * 0.5 + 0.5) * (max - min) + min, s being Math.sin(x)
scaleSine(s, min, max) ==
  LET half == F64Mul(s.mag, Half)
      unit == IF s.neg THEN F64Sub(Half, half) ELSE F64Add(half, Half)
  IN  F64Add(F64Mul(unit, F64Sub(max, min)), min)

\* the binary64 values 0.6, 0.7, 1.7 and 2.9
SixTenths == F64Hex(<<3, 3, 3, 3, 3, 3, 3, 3, 3, 3, 3, 3, 3>>, -1)

SevenTenths == F64Hex(<<6, 6, 6, 6, 6, 6, 6, 6, 6, 6, 6, 6, 6>>, -1)

OnePointSeven == F64Hex(<<11, 3, 3, 3, 3, 3, 3, 3, 3, 3, 3, 3, 3>>, 0)

TwoPointNine == F64Hex(<<7, 3, 3, 3, 3, 3, 3, 3, 3, 3, 3, 3, 3>>, 1)

F64Zero == ToF64(Num(0))

F64One == ToF64(Num(1))

\* values of Math.sin: 0, 0.1, 0.3, 0.5 and 1 with either sign
SineValues ==
  { [neg |-> neg, mag |-> mag] :
      neg \in BOOLEAN, mag \in {Tenth, ThreeTenths, Half, F64One} }
    \cup { [neg |-> FALSE, mag |-> F64Zero] }

\* the range arguments: the defaults 0 and 1, the 0.6 and 3 of the strobe depth,
\* and others
SineBounds == { F64Zero, SixTenths, SevenTenths, F64One, OnePointSeven, TwoPointNine,
                ToF64(Num(3)) }

\* the arguments of a direct application of scaleSine
SineProbeOf(s, min, max) ==
  [ blendMode |-> "none", fn |-> "scaleSine", s |-> s, min |-> min, max |-> max,
    done |-> FALSE, out |-> Undefined ]

ScaleSineCall ==
  /\ probe.blendMode = "none" /\ ~probe.done
  /\ probe' = [probe EXCEPT !.done = TRUE,
                            !.out = scaleSine(probe.s, probe.min, probe.max)]
  /\ UNCHANGED <<config, opts, sinkReady, dudes, dudesInterval, scheduleInterval,
                 currentScheduleRule, paused, timers, scheduleLive, now, t, proc,
                 pixelData, device, lastCmd, calls, threw>>

InitSine ==
  /\ Construct(MakeConfig(1, <<ConstantDude>>, NoSchedule), [ignoreSchedule |-> FALSE],
               <<5, 0>>)
  /\ \E s \in SineValues : \E min \in SineBounds : \E max \in SineBounds :
       /\ F64Le(min, max)
       /\ probe = SineProbeOf(s, min, max)

NextSine == ScaleSineCall

SpecSine == InitSine /\ [][NextSine]_vars

(***************************************************************************)
(* Scheduled mode under fair timers.  The scheduler timer fires every 10   *)
(* seconds and the clock is read to the minute: within a minute the        *)
(* callback runs until another run would change nothing, and only then     *)
(* does the minute change.  The timer keeps firing and the clock keeps     *)
(* moving on.                                                              *)
(***************************************************************************)
InitLive ==
  /\ probe = NoProbe
  /\ \E sch \in {<<Afternoon>>, <<Afternoon, Overlap>>} : \E k \in DOMAIN DayTimes :
       Construct(MakeConfig(1, <<ConstantDude>>, [hasSchedule |-> TRUE, schedule |-> sch]),
                 [ignoreSchedule |-> FALSE], DayTimes[k])

\* another run of the scheduler's callback now would change no field of the manager
Settled ==
  LET m == checkSchedule(config, Mgr, now, t)
  IN  m.currentScheduleRule = currentScheduleRule /\ m.dudesInterval = dudesInterval

\* the minute changes once the scheduler has caught up with the current one
AdvanceDaySettled ==
  /\ Settled
  /\ AdvanceDay(DayTimes)

NextLive ==
  \/ ScheduleTick
  \/ AnimationTick
  \/ Pause
  \/ Resume
  \/ AdvanceDaySettled

FairLive ==
  /\ WF_vars(ScheduleTick)
  /\ SF_vars(AdvanceDaySettled)

SpecLive == InitLive /\ [][NextLive]_vars /\ FairLive

(***************************************************************************)
(* Seeds: two emitters, the second linked or not, with and without a seed  *)
(* of its own, over two random draws each                                  *)
(***************************************************************************)
\* values of Math.random() * 1000 - 500
SeedDraws == {Num(-125), Frac(751, 2)}

SeedDude(mode, linked, seed) ==
  [DudeConfig(mode, Rgb(255, 0, 100), "SUM", FALSE, Undefined, Undefined, Undefined)
     EXCEPT !.linked = linked, !.seed = seed]

SeedDudeLists ==
  { <<SeedDude(first, FALSE, seed1), SeedDude(second, linked, seed2)>> :
      first \in {"constant", "test", Omitted}, second \in {"constant", "test", Omitted},
      linked \in BOOLEAN, seed1 \in {Undefined, Num(7)}, seed2 \in {Undefined, Num(42)} }

InitSeed ==
  /\ probe = NoProbe
  /\ \E ds \in SeedDudeLists : \E draws \in [1..2 -> SeedDraws] :
       Construct([MakeConfig(1, ds, NoSchedule) EXCEPT !.draws = draws],
                 [ignoreSchedule |-> FALSE], <<5, 0>>)

NextSeed ==
  \/ AnimationTick
  \/ AdvanceTime(CoarseSteps)

SpecSeed == InitSeed /\ [][NextSeed]_vars

(***************************************************************************)
(* Startup: every sink type, strip length and emitter list present or      *)
(* missing, then the whole lifecycle                                       *)
(***************************************************************************)
LedTypes == {"dummy", "dotstar", "ws281x"}

\* config.dudes: missing, empty, or one Constant emitter
StartupDudes ==
  { [hasDudes |-> FALSE, dudes |-> <<>>],
    [hasDudes |-> TRUE,  dudes |-> <<>>],
    [hasDudes |-> TRUE,  dudes |-> <<ConstantDude>>] }

\* the config with the given keys
StartupConfig(ledType, hasStripLength, ds, sch) ==
  [MakeConfig(IF hasStripLength THEN 2 ELSE 0, ds.dudes, sch)
     EXCEPT !.ledType = ledType, !.hasStripLength = hasStripLength,
            !.hasDudes = ds.hasDudes]

InitStartup ==
  /\ probe = NoProbe
  /\ \E ledType \in LedTypes : \E hasStripLength \in BOOLEAN : \E ds \in StartupDudes :
       \E sch \in {NoSchedule, [hasSchedule |-> TRUE, schedule |-> <<Afternoon>>]} :
         \E date \in {<<5, 0>>, <<14, 0>>} :
           Construct(StartupConfig(ledType, hasStripLength, ds, sch),
                     [ignoreSchedule |-> FALSE], date)

SpecStartup == InitStartup /\ [][Next]_vars

(***************************************************************************)
(* The sink written by the loop and by a client, dummy and ws281x          *)
(***************************************************************************)
InitSink ==
  /\ probe = NoProbe
  /\ \E ledType \in {"dummy", "ws281x"} : \E stripLength \in {1, 2} :
       Construct([MakeConfig(stripLength, <<ConstantDude>>, NoSchedule)
                    EXCEPT !.ledType = ledType],
                 [ignoreSchedule |-> FALSE], <<5, 0>>)

NextSink ==
  \/ SinkSetPixel
  \/ AnimationTick

SpecSink == InitSink /\ [][NextSink]_vars

(***************************************************************************)
(* The scheduler over every minute of the day                              *)
(***************************************************************************)
InitClock ==
  /\ probe = NoProbe
  /\ \E k \in DOMAIN AllMinutes :
       Construct(MakeConfig(1, <<ConstantDude>>,
                            [hasSchedule |-> TRUE, schedule |-> <<Afternoon>>]),
                 [ignoreSchedule |-> FALSE], AllMinutes[k])

NextClock ==
  \/ ScheduleTick
  \/ AdvanceDay(AllMinutes)

SpecClock == InitClock /\ [][NextClock]_vars

(***************************************************************************)
(* The sink's asynchronous init racing the manager's handlers              *)
(***************************************************************************)
InitSinkRace ==
  /\ probe = NoProbe
  /\ \E ledType \in LedTypes :
       \E sch \in {NoSchedule, [hasSchedule |-> TRUE, schedule |-> <<Afternoon>>]} :
         \E date \in {<<5, 0>>, <<14, 0>>} :
           ConstructPending([MakeConfig(1, <<ConstantDude>>, sch) EXCEPT !.ledType = ledType],
                            [ignoreSchedule |-> FALSE], date)

NextSinkRace ==
  \/ SinkInit
  \/ AnimationTick
  \/ ScheduleTick
  \/ Pause
  \/ Resume
  \/ Signal
  \/ AdvanceTime(CoarseSteps)
  \/ AdvanceDay(DayTimes)

SpecSinkRace == InitSinkRace /\ [][NextSinkRace]_vars

(***************************************************************************)
(* Properties                                                              *)
(***************************************************************************)
\* a JavaScript number that lies in [lo, hi]
InRange(v, lo, hi) == ~IsNaN(v) /\ Le(Num(lo), v) /\ Le(v, Num(hi))

\* the calls of the last handler with this name
CallsOf(op) == SelectSeq(calls, LAMBDA c : c.op = op)

\* how many calls with this name a handler's log holds
CountOps(log, op) == Len(SelectSeq(log, LAMBDA c : c.op = op))

\* minutes since midnight of a time of day or rule time
Minutes(time) == 60 * time[1] + time[2]

\* immediate mode: no schedule configured, or ignoreSchedule set
Immediate == opts.ignoreSchedule \/ ~config.hasSchedule

\* the animation loop is running: the stored handle names a live timer
LoopRunning == dudesInterval # 0 /\ dudesInterval \in DOMAIN timers

\* C1: for every frame and pixel, each of the three channel values the animation
\* tick passes to setPixel is a number in [0, 255], whatever the blend modes and
\* contributions (Dodge and Burn dividing by zero included).
C1_SetPixelInRange ==
  \A k \in DOMAIN calls :
    calls[k].op = "setPixel" =>
      \A index \in 1..3 : InRange(calls[k].rgb[index], 0, 255)

\* C2: a termination signal in any manager state cancels the animation timer and
\* the scheduler timer if they are set and calls off() exactly once before the
\* process exits; nothing is written to the sink after that off().
C2_SignalCommandsOff ==
  [][ /\ (proc = "running" /\ proc' = "exited") =>
           /\ (dudesInterval # 0 => dudesInterval \notin DOMAIN timers')
           /\ (scheduleInterval # 0 => ~scheduleLive')
           /\ CountOps(calls', "off") = 1
           /\ calls'[Len(calls')].op = "off"
           /\ lastCmd' = "off"
      /\ proc = "exited" =>
           /\ proc' = "exited"
           /\ UNCHANGED <<lastCmd, calls, pixelData, device, timers, scheduleLive>> ]_vars

\* C2 witness: the signal arrived while both timers were set, and both are cancelled
C2_Witness ==
  /\ proc = "exited"
  /\ dudesInterval # 0 /\ scheduleInterval # 0
  /\ timers = <<>> /\ ~scheduleLive
  /\ lastCmd = "off"

\* C3: a scheduler tick with no active rule activates the first rule in
\* configuration order whose window [start, end) contains now and starts the loop
\* exactly once; when no window contains now it starts nothing.
C3_FirstMatchingRuleStarts ==
  [][ (ScheduleTick /\ currentScheduleRule = 0) =>
        LET matching == { k \in DOMAIN config.schedule :
                            /\ Minutes(config.schedule[k].start) <= Minutes(now)
                            /\ Minutes(now) < Minutes(config.schedule[k].end) }
        IN  IF matching = {}
            THEN /\ currentScheduleRule' = 0
                 /\ UNCHANGED <<dudesInterval, timers>>
                 /\ CountOps(calls', "start") = 0
            ELSE /\ currentScheduleRule' \in matching
                 /\ \A k \in matching : currentScheduleRule' <= k
                 /\ CountOps(calls', "start") = 1
                 /\ Cardinality(DOMAIN timers') = Cardinality(DOMAIN timers) + 1
                 /\ dudesInterval' \in DOMAIN timers' ]_vars

\* C3 witness: at 14:30 both rules' windows contain now; a tick after construction
\* (the loop was started at millisecond 25) made the first one active
C3_Witness ==
  /\ Len(config.schedule) = 2
  /\ now = <<14, 30>>
  /\ currentScheduleRule = 1
  /\ ~paused /\ lastCmd = "none"
  /\ LoopRunning /\ timers[dudesInterval].tLast = 25
  /\ CountOps(calls, "start") = 1

\* C4: while a rule is active, a scheduler tick at or after the rule's end cancels
\* the animation timer, commands the sink off and clears the active rule; a tick
\* before the rule's end leaves the loop running and the rule active.
C4_WindowEndStops ==
  [][ (ScheduleTick /\ currentScheduleRule # 0) =>
        IF Minutes(now) >= Minutes(config.schedule[currentScheduleRule].end)
        THEN /\ dudesInterval \notin DOMAIN timers'
             /\ timers' = <<>>
             /\ dudesInterval' = 0
             /\ currentScheduleRule' = 0
             /\ lastCmd' = "off"
             /\ CountOps(calls', "off") = 1
        ELSE /\ LoopRunning
             /\ UNCHANGED <<dudesInterval, timers, currentScheduleRule, lastCmd>> ]_vars

\* C4 witness: the window 14:00-15:00 has ended at 15:00 and the scheduler tick has
\* stopped the loop
C4_Witness ==
  /\ config.schedule = <<Afternoon>>
  /\ now = <<15, 0>>
  /\ ~paused /\ proc = "running"
  /\ currentScheduleRule = 0 /\ dudesInterval = 0 /\ timers = <<>>
  /\ lastCmd = "off" /\ CountOps(calls, "off") = 1

\* C5: in immediate mode construction starts the loop and installs no scheduler
\* timer, and without a pause request or termination signal the loop stays
\* running for ever.
C5_ImmediateRunsForever ==
  /\ Immediate => (LoopRunning /\ scheduleInterval = 0 /\ ~scheduleLive)
  /\ [][ ( /\ Immediate /\ proc = "running" /\ LoopRunning
           /\ ~(~paused /\ paused')
           /\ proc' # "exited" ) =>
         (proc' = "running" /\ LoopRunning' /\ scheduleInterval' = 0 /\ ~scheduleLive')
     ]_vars

\* C6: in immediate mode pause() followed by resume() returns the manager to
\* Running: after resume() returns without error the loop is ticking again.
C6_ResumeRestartsImmediate ==
  [][ (Immediate /\ proc = "running" /\ paused /\ ~paused' /\ ~threw') => LoopRunning' ]_vars

\* C7: whenever the paused flag is set, no animation timer is live (so no frame
\* is written), scheduler ticks inside a rule's window included.
C7_PausedMeansNoTimer ==
  paused => (dudesInterval = 0 /\ timers = <<>>)

\* C8: within every frame, timeTick has been called on all emitters, in
\* configuration order, before the first positionTick; positions are sampled in
\* increasing order 0, 1, ..., and at each position every emitter is sampled in
\* configuration order before the next position begins.
C8_FrameCallOrder ==
  (calls # <<>> /\ calls[1].op = "timeTick") =>
    LET n       == Len(dudes)
        samples == CallsOf("positionTick")
    IN  /\ CountOps(calls, "timeTick") = n
        /\ \A i \in 1..n : calls[i].op = "timeTick" /\ calls[i].dude = i
        /\ \A j \in DOMAIN samples :
             /\ samples[j].dude = ((j - 1) % n) + 1
             /\ samples[j].position = (j - 1) \div n
        /\ CountOps(calls, "update") = 1 => Len(samples) = n * config.stripLength

\* C8 witness: a completed frame of two emitters over two positions
C8_Witness ==
  /\ Len(dudes) = 2
  /\ CountOps(calls, "timeTick") = 2
  /\ CountOps(calls, "positionTick") = 4
  /\ CountOps(calls, "update") = 1

\* C9: isAfter(now, [H, M]) is true exactly when 60*hour(now) + minute(now) >=
\* 60*H + M, for every hour and minute; 14:30 is after [14,0] and not after [15,0]
\* (the rule 14:00-15:00 is active), and 15:00 is after [15,0].
C9_IsAfterIsMinuteOrder ==
  /\ \A H \in 0..23 : \A M \in 0..59 :
       isAfter(now, <<H, M>>) <=> (Minutes(now) >= 60 * H + M)
  /\ isAfter(<<14, 30>>, <<14, 0>>) /\ ~isAfter(<<14, 30>>, <<15, 0>>)
  /\ inWindow(<<14, 30>>, Afternoon)
  /\ isAfter(<<15, 0>>, <<15, 0>>) /\ ~inWindow(<<15, 0>>, Afternoon)

\* C9 witness: at 14:30 the rule 14:00-15:00 is active again, a scheduler tick
\* having ended it at or after 15:00 the day before
C9_Witness ==
  /\ now = <<14, 30>>
  /\ config.schedule = <<Afternoon>>
  /\ currentScheduleRule = 1 /\ LoopRunning
  /\ lastCmd = "off"

\* C10: for a strobed emitter each timeTick(t, dt) adds dt to sinceFlip and, exactly
\* when the sum reaches strobePeriod, toggles the on flag once and resets
\* sinceFlip to 0; so 0 <= sinceFlip < strobePeriod after every timeTick.
C10_StrobeToggle ==
  /\ [](\A i \in DOMAIN dudes :
          dudes[i].strobe =>
            /\ Le(Num(0), dudes[i].sinceFlip)
            /\ Lt(dudes[i].sinceFlip, dudes[i].strobePeriod))
  /\ [][ AnimationTick =>
           \A i \in DOMAIN dudes :
             dudes[i].strobe =>
               LET dt  == t - timers[dudesInterval].tLast
                   sum == Add(dudes[i].sinceFlip, Num(dt))
               IN  IF Le(dudes[i].strobePeriod, sum)
                   THEN /\ dudes'[i].on = ~dudes[i].on
                        /\ dudes'[i].sinceFlip = Num(0)
                   ELSE /\ dudes'[i].on = dudes[i].on
                        /\ dudes'[i].sinceFlip = sum ]_vars

\* C10 witness: one timeTick whose dt of 25 spans two periods of 10 has toggled the
\* flag once, from on to off
C10_Witness ==
  \E i \in DOMAIN dudes :
    /\ dudes[i].strobe /\ dudes[i].strobePeriod = Num(10)
    /\ ~dudes[i].on /\ dudes[i].sinceFlip = Num(0)
    /\ timers[dudesInterval].frames = 1
    /\ \E k \in DOMAIN calls : calls[k].op = "timeTick" /\ calls[k].dude = i /\ calls[k].dt = 25
\* the calls positionTick(i, .) of the last handler
SamplesOf(log, i) == SelectSeq(log, LAMBDA c : c.op = "positionTick" /\ c.dude = i)

\* C11: an emitter configured with strobe enabled, whatever its mode (Constant
\* included), accumulates the elapsed time in timeTick and toggles its on/off flag
\* once the strobe period is reached.
C11_StrobeAnyMode ==
  [][ AnimationTick =>
        \A i \in DOMAIN dudes :
          config.dudes[i].strobe =>
            /\ dudes[i].strobe
            /\ dudes[i].sinceFlip # Undefined
            /\ LET dt     == t - timers[dudesInterval].tLast
                   period == defaultTo(config.dudes[i].strobePeriod, STROBE_PERIOD_DEFAULT)
                   sum    == Add(dudes[i].sinceFlip, Num(dt))
               IN  IF Le(period, sum)
                   THEN dudes'[i].on = ~dudes[i].on /\ dudes'[i].sinceFlip = Num(0)
                   ELSE dudes'[i].on = dudes[i].on /\ dudes'[i].sinceFlip = sum ]_vars

\* C12: while an emitter's strobe is enabled and its on/off flag is off, every
\* positionTick returns (0,0,0) and changes nothing of the emitter: after the frame
\* the emitter is as its timeTick left it, the Classic accumulator not advanced.
C12_StrobedOffIsBlack ==
  [][ AnimationTick =>
        \A i \in DOMAIN dudes :
          (dudes'[i].strobe /\ ~dudes'[i].on) =>
            /\ \A k \in DOMAIN calls' :
                 (calls'[k].op = "positionTick" /\ calls'[k].dude = i) =>
                   calls'[k].rgb = <<Num(0), Num(0), Num(0)>>
            /\ dudes'[i] =
                 [dudes[i] EXCEPT
                    !.on = dudes'[i].on,
                    !.sinceFlip = dudes'[i].sinceFlip,
                    !.testColors = IF dudes[i].mode = "test" THEN dudes'[i].testColors ELSE @,
                    !.positionParam = IF dudes[i].mode = "classic" THEN Num(0) ELSE @] ]_vars

\* C12 witness: a completed frame in which a strobed-off Classic emitter with scale
\* and offset was sampled at both positions and its accumulator stands at 0
C12_Witness ==
  \E i \in DOMAIN dudes :
    /\ dudes[i].mode = "classic" /\ dudes[i].scale # Undefined
    /\ dudes[i].strobe /\ ~dudes[i].on
    /\ dudes[i].positionParam = Num(0)
    /\ Len(SamplesOf(calls, i)) = config.stripLength
    /\ CountOps(calls, "update") = 1

\* C13: for a Constant emitter timeTick changes no emitter state, positionTick
\* returns the configured base colour at every position of every frame, and the
\* stored base colour is the configured one after any sequence of ticks.
C13_ConstantIsConstant ==
  /\ [](\A i \in DOMAIN dudes :
          dudes[i].mode = "constant" => dudes[i].rgb = config.dudes[i].rgb)
  /\ [][ AnimationTick =>
           \A i \in DOMAIN dudes :
             dudes[i].mode = "constant" =>
               /\ dudes'[i] = dudes[i]
               /\ \A k \in DOMAIN calls' :
                    (calls'[k].op = "positionTick" /\ calls'[k].dude = i) =>
                      calls'[k].rgb = config.dudes[i].rgb ]_vars

\* C13 witness: the second frame of a Constant emitter of colour (10,20,30), blended
\* after a Test emitter, sampled at all four positions
C13_Witness ==
  \E i \in DOMAIN dudes :
    /\ i > 1 /\ dudes[i].mode = "constant"
    /\ config.stripLength = 4
    /\ timers[dudesInterval].frames = 2
    /\ Len(SamplesOf(calls, i)) = 4
    /\ \A k \in 1..4 : SamplesOf(calls, i)[k].rgb = <<Num(10), Num(20), Num(30)>>
\* C14: with the single Constant emitter (10,20,30), Sum blend, on a strip of three
\* pixels, every animation tick writes (10,20,30) to pixel 0, pixel 1 and pixel 2,
\* in this order, and then commits with update(), in every frame the loop draws.
C14_ConstantEndToEnd ==
  [][ AnimationTick =>
        LET writes == SelectSeq(calls', LAMBDA c : c.op = "setPixel")
        IN  /\ Len(writes) = 3
            /\ \A k \in 1..3 :
                 /\ writes[k].position = k - 1
                 /\ writes[k].rgb = <<Num(10), Num(20), Num(30)>>
            /\ CountOps(calls', "update") = 1
            /\ calls'[Len(calls')].op = "update"
            /\ device' = [position \in 0..2 |-> <<Num(10), Num(20), Num(30)>>]
            /\ proc' = "running" ]_vars

\* C14 witness: the second frame of a loop, all three pixels written and committed
C14_Witness ==
  /\ config.stripLength = 3 /\ Len(dudes) = 1 /\ dudes[1].mode = "constant"
  /\ LoopRunning /\ timers[dudesInterval].frames = 2
  /\ lastCmd = "update"
  /\ \A position \in 0..2 : device[position] = <<Num(10), Num(20), Num(30)>>
TableBlend(mode, acc, c) ==
  CASE mode = "SUM"      -> Add(acc, c)
    [] mode = "AVERAGE"  -> Div(Add(acc, c), Num(2))
    [] mode = "MULTIPLY" -> Mul(acc, c)
    [] mode = "REPLACE"  -> IF Lt(Num(0), c) THEN c ELSE acc

\* the left fold of the table over the contributions cs[1..n] on one channel
RECURSIVE TableFold(_, _, _, _)
TableFold(modes, cs, index, n) ==
  IF n = 0 THEN Num(0)
  ELSE TableBlend(modes[n], TableFold(modes, cs, index, n - 1), cs[n].rgb[index])

\* a finite number limited to [0, 255]
Limit(v) == IF Lt(v, Num(0)) THEN Num(0) ELSE IF Lt(Num(255), v) THEN Num(255) ELSE v

\* the positionTick calls of the last handler at this position, in call order
SamplesAt(log, position) ==
  SelectSeq(log, LAMBDA c : c.op = "positionTick" /\ c.position = position)

\* C16: the value written at a pixel is the clamped left fold, from (0,0,0) and in
\* emitter declaration order, of blend(mode_i, acc, contribution_i) with emitter
\* i's own blend mode: Sum acc + c, Average (acc + c)/2, Multiply acc * c, Replace
\* c if c > 0 else acc.
C16_LeftFoldOfBlends ==
  \A k \in DOMAIN calls :
    ( /\ calls[k].op = "setPixel"
      /\ \A i \in DOMAIN dudes :
           dudes[i].blendMode \in {"SUM", "AVERAGE", "MULTIPLY", "REPLACE"} ) =>
      LET cs    == SamplesAt(calls, calls[k].position)
          modes == [i \in DOMAIN dudes |-> dudes[i].blendMode]
      IN  /\ Len(cs) = Len(dudes)
          /\ \A i \in DOMAIN cs : cs[i].dude = i
          /\ \A index \in 1..3 :
               calls[k].rgb[index] = Limit(TableFold(modes, cs, index, Len(cs)))

\* C16 witness: an Average emitter at half level followed by a Sum emitter at full
\* level: ((0 + 127.5)/2) + 255 on the red channel is limited to 255, and
\* ((0 + 50)/2) + 100 = 125 on the blue one; the other order would give 87.5
C16_Witness ==
  /\ Len(dudes) = 2
  /\ dudes[1].blendMode = "AVERAGE" /\ dudes[2].blendMode = "SUM"
  /\ \E k \in DOMAIN calls :
       /\ calls[k].op = "setPixel"
       /\ SamplesAt(calls, 0)[1].rgb = <<Frac(255, 2), Num(0), Num(50)>>
       /\ SamplesAt(calls, 0)[2].rgb = <<Num(255), Num(0), Num(100)>>
       /\ calls[k].rgb = <<Num(255), Num(0), Num(125)>>
\* a binary64 value that is a whole number
WholeF64(v) == v[1] = <<>> \/ \A k \in 1..53 : k > 53 + v[2] => v[1][k] = 0

\* a binary64 colour of whole channel values
WholeRgb(c) == \A index \in 1..3 : WholeF64(c[index])

\* C17 as stated: Sum blending is commutative and associative: folding a then b
\* from black equals folding b then a, and blend(Sum, blend(Sum, x, a), b) =
\* blend(Sum, x, blend(Sum, a, b)) for every base x and contributions a, b.
C17_SumCommutativeAssociative ==
  (probe.done /\ probe.blendMode = "SUM") =>
    (probe.ab = probe.ba /\ probe.left = probe.right)

\* C17 amended: Sum blending is commutative for all contributions, and it is
\* associative when the channel values of x, a and b are whole numbers (their
\* binary64 sums are exact).
C17_SumCommutativeWholeAssociative ==
  (probe.done /\ probe.blendMode = "SUM") =>
    /\ probe.ab = probe.ba
    /\ (WholeRgb(probe.base) /\ WholeRgb(probe.a) /\ WholeRgb(probe.b)) =>
         probe.left = probe.right

\* C17 witness: (10,20,30) + (255,0,100) + (0,200,1) in both groupings
C17_Witness ==
  /\ probe.done /\ probe.blendMode = "SUM"
  /\ probe.base = Rgb64(10, 20, 30) /\ probe.a = Rgb64(255, 0, 100)
  /\ probe.b = Rgb64(0, 200, 1)
  /\ probe.left = Rgb64(265, 220, 131) /\ probe.right = Rgb64(265, 220, 131)
  /\ probe.ab = Rgb64(255, 200, 101) /\ probe.ba = Rgb64(255, 200, 101)

\* a colour with a channel above zero
NonZero(c) == \E index \in 1..3 : Lt(Num(0), c[index])

\* C18 as stated: with two Replace emitters, one contributing a non-zero colour
\* and one contributing black, folding them from black in the two orders gives
\* different pixels.
C18_ReplaceOrderWithBlack ==
  ( /\ probe.done /\ probe.blendMode = "REPLACE"
    /\ NonZero(probe.a) /\ probe.b = Black ) =>
    probe.ab # probe.ba

\* C18 amended: Replace blending is not commutative: two Replace contributions
\* that are both above zero and different on some channel give different pixels
\* in the two orders, the later contribution winning wherever it is above zero;
\* with one contribution black both orders give the other contribution.
C18_ReplaceOrderMatters ==
  (probe.done /\ probe.blendMode = "REPLACE") =>
    /\ \A index \in 1..3 :
         probe.ab[index] = IF Lt(Num(0), probe.b[index]) THEN probe.b[index]
                           ELSE probe.a[index]
    /\ (\E index \in 1..3 :
          /\ Lt(Num(0), probe.a[index]) /\ Lt(Num(0), probe.b[index])
          /\ probe.a[index] # probe.b[index]) => probe.ab # probe.ba
    /\ probe.b = Black => (probe.ab = probe.a /\ probe.ba = probe.a)

\* C18 witness: (255,0,100) and (10,20,30): (10,20,30) one way, (255,20,100) the other
C18_Witness ==
  /\ probe.done /\ probe.blendMode = "REPLACE"
  /\ probe.a = Rgb(255, 0, 100) /\ probe.b = Rgb(10, 20, 30)
  /\ probe.ab = Rgb(10, 20, 30) /\ probe.ba = Rgb(255, 20, 100)

\* the sum of a colour's three channels
ChannelSum(c) == Add(Add(c[1], c[2]), c[3])

\* C19: Default blending returns the base unchanged when the contribution's
\* channel sum is at most the base's; otherwise it returns per channel base +
\* d * contribution with d = (sum(contribution) - sum(base)) / 255; no channel of
\* the result is below the base's.
C19_DefaultBlend ==
  (probe.done /\ probe.blendMode = "DEFAULT") =>
    LET d == Div(Sub(ChannelSum(probe.a), ChannelSum(probe.base)), Num(255))
    IN  /\ IF Le(ChannelSum(probe.a), ChannelSum(probe.base))
           THEN probe.xa = probe.base
           ELSE \A index \in 1..3 :
                  probe.xa[index] = Add(probe.base[index], Mul(d, probe.a[index]))
        /\ \A index \in 1..3 : Le(probe.base[index], probe.xa[index])

\* C19 witness: (255,0,100) onto (10,20,30): d = 295/255, the result
\* (305, 20, 30 + 29500/255)
C19_Witness ==
  /\ probe.done /\ probe.blendMode = "DEFAULT"
  /\ probe.base = Rgb(10, 20, 30) /\ probe.a = Rgb(255, 0, 100)
  /\ probe.xa = <<Num(305), Num(20), Frac(7430, 51)>>
\* C20: the sink's setPixel(index, r, g, b) raises an error and writes nothing for
\* every index outside [0, stripLength), below 0 or at or above stripLength, and
\* writes the colour for every index inside.
C20_SetPixelRange ==
  [][ SinkSetPixel =>
        LET index == calls'[1].position
        IN  /\ threw' <=> (index < 0 \/ index >= config.stripLength)
            /\ threw' => pixelData' = pixelData
            /\ ~threw' => pixelData'[index] = calls'[1].rgb ]_vars
\* the manager's constructor raised an error: no emitter, no timer, no pixel written
NothingStarted ==
  /\ proc = "crashed"
  /\ dudes = <<>>
  /\ timers = <<>> /\ dudesInterval = 0
  /\ ~scheduleLive /\ scheduleInterval = 0
  /\ \A position \in DOMAIN pixelData : pixelData[position] = Undefined
  /\ CountOps(calls, "setPixel") = 0 /\ CountOps(calls, "start") = 0

C22_NoStripLengthFailsConstruction ==
  ~config.hasStripLength => threw /\ NothingStarted
\* a pixel of the device that is dark
Extinguished(c) == c = Undefined \/ c = Black

\* C23: after the sink's off() returns, every pixel of the strip is extinguished on
\* the device (the black state is committed, not only written into the pending
\* frame buffer), for each sink implementation: dummy, dotstar and ws281x.
C23_OffExtinguishesDevice ==
  CountOps(calls, "off") > 0 => \A p \in DOMAIN device : Extinguished(device[p])

\* C24: an emitter configured as linked and without a seed of its own ends
\* construction with the same seed as the emitter declared immediately before it,
\* for every predecessor mode; a seed of its own takes precedence over the
\* inherited one; and no emitter's seed changes after construction.
C24_LinkedSeed ==
  /\ \A i \in DOMAIN dudes :
        /\ (i > 1 /\ config.dudes[i].linked /\ config.dudes[i].seed = Undefined)
              => dudes[i].seed = dudes[i - 1].seed
        /\ config.dudes[i].seed # Undefined => dudes[i].seed = config.dudes[i].seed
  /\ [][ \A i \in DOMAIN dudes : dudes'[i].seed = dudes[i].seed ]_vars

\* now lies in the window [start, end) of some rule
InSomeWindow ==
  \E k \in DOMAIN config.schedule :
    /\ Minutes(config.schedule[k].start) <= Minutes(now)
    /\ Minutes(now) < Minutes(config.schedule[k].end)

\* C25: in scheduled mode, if the manager is not paused and now stays inside the
\* window of some rule, then under fair firing of the scheduler timer the animation
\* loop is eventually running (unless now leaves the window or pause() is called
\* first); and a rule whose window has ended is active again later, on a day
\* after.
C25_ScheduledLoopEventuallyRuns ==
  /\ (~paused /\ InSomeWindow) ~> (LoopRunning \/ paused \/ ~InSomeWindow)
  /\ \A k \in 1..2 :
        (k \in DOMAIN config.schedule /\ currentScheduleRule = 0
           /\ Minutes(now) >= Minutes(config.schedule[k].end))
          ~> (currentScheduleRule = k /\ LoopRunning)

\* C25 witness: the second rule is active and its loop running at 15:00, started by
\* a scheduler tick after the first rule's window ended
C25_Witness ==
  /\ Len(config.schedule) = 2 /\ now = <<15, 0>> /\ ~paused
  /\ currentScheduleRule = 2 /\ LoopRunning
  /\ timers[dudesInterval].frames > 0
C27_FrameWritesEveryPixelThenUpdates ==
  (calls # <<>> /\ calls[1].op = "timeTick") =>
    LET writes == CallsOf("setPixel")
    IN  /\ Len(writes) = config.stripLength
        /\ \A j \in DOMAIN writes : writes[j].position = j - 1
        /\ CountOps(calls, "update") = 1
        /\ calls[Len(calls)].op = "update"
        /\ CountOps(calls, "off") = 0
        /\ lastCmd = "update"

\* the emitter is strobed off: its positionTick returns black at once
StrobedOff(i) == dudes[i].strobe /\ ~dudes[i].on

\* C28: for a Classic emitter that is not strobed off, the accumulator used for the
\* sample at position p is the value the frame's timeTick set plus (p+1) times
\* positionDelta, in every frame (the next frame's timeTick sets it anew); a completed
\* frame leaves it stripLength steps past that value.
C28_ClassicAccumulator ==
  /\ \A c \in DOMAIN calls :
       ( /\ calls[c].op = "positionTick" /\ calls[c].rgb # Undefined
         /\ dudes[calls[c].dude].mode = "classic" /\ ~StrobedOff(calls[c].dude) ) =>
         calls[c].param = Num(calls[c].position + 1)
  /\ (calls # <<>> /\ calls[Len(calls)].op = "update") =>
       \A i \in DOMAIN dudes :
         (dudes[i].mode = "classic" /\ ~StrobedOff(i)) =>
           dudes[i].positionParam = Num(config.stripLength)

\* C28 witness: the second frame of a timer, in which a Classic emitter that is on
\* was sampled at position 0 with the accumulator one step, and at position 1 two
\* steps, past timeTick's value
C28_Witness ==
  /\ \E h \in DOMAIN timers : timers[h].frames = 2
  /\ \E c \in DOMAIN calls : \E d \in DOMAIN calls :
       /\ calls[c].op = "positionTick" /\ calls[d].op = "positionTick"
       /\ calls[c].dude = calls[d].dude
       /\ dudes[calls[c].dude].mode = "classic" /\ ~StrobedOff(calls[c].dude)
       /\ calls[c].position = 0 /\ calls[c].param = Num(1)
       /\ calls[d].position = 1 /\ calls[d].param = Num(2)

\* the emitter's configuration omits scale, offset, seed and strobe (slide is read
\* by no mode but FM, where an omitted slide is 0)
OptionsOmitted(i) ==
  /\ config.dudes[i].scale = Undefined /\ config.dudes[i].offset = Undefined
  /\ config.dudes[i].seed = Undefined /\ ~config.dudes[i].strobe

\* C29: for an emitter of any mode whose configuration omits the optional fields,
\* every positionTick issued after a timeTick returns a colour and never raises
\* TypeError('this should never happen'), so no frame ends the process.
C29_OmittedOptionsNeverThrow ==
  /\ \A c \in DOMAIN calls :
       (calls[c].op = "positionTick" /\ OptionsOmitted(calls[c].dude)) =>
         calls[c].rgb # Undefined
  /\ (\A i \in DOMAIN dudes : OptionsOmitted(i)) => proc # "crashed"

\* C30: for a Stripes emitter every channel of the colour positionTick returns lies
\* between 0 and the base colour's channel: the coverage factor lies in [0, 1].
C30_StripeCoverageInUnitRange ==
  \A c \in DOMAIN calls :
    (calls[c].op = "positionTick" /\ dudes[calls[c].dude].mode = "stripes") =>
      \A index \in 1..3 :
        /\ Le(Num(0), calls[c].rgb[index])
        /\ Le(calls[c].rgb[index], dudes[calls[c].dude].rgb[index])

\* the calls of the last handler are those of an animation frame
FrameCalls == calls # <<>> /\ calls[1].op = "timeTick"

\* the step is a run of the interval callback of timer h: the closure variables of a
\* live timer change in no other step
FrameStep(h) ==
  h \in DOMAIN timers /\ h \in DOMAIN timers' /\ timers'[h] # timers[h]

C32_DtSinceStart ==
  /\ [](\A h \in DOMAIN timers : timers[h].tLast <= t)
  /\ [][ /\ \A h \in (DOMAIN timers') \ (DOMAIN timers) : timers'[h].tLast = t
         /\ \A h \in DOMAIN timers :
              FrameStep(h) =>
                /\ timers'[h].tLast = t
                /\ \A c \in DOMAIN calls' :
                     calls'[c].op = "timeTick" => calls'[c].dt = t - timers[h].tLast
         /\ (timers = <<>> \/ paused) =>
              \A i \in DOMAIN dudes :
                dudes'[i].sinceFlip = dudes[i].sinceFlip /\ dudes'[i].on = dudes[i].on ]_vars

\* C33: every frame adds 1 to the frame counter and dt to the accumulator; it logs
\* an fps figure once, before update(), exactly when the accumulator then exceeds
\* 1000 ms, and resets both counters to 0; otherwise it logs nothing.  Both counters
\* are 0 in a timer that start() installs.
C33_FpsAccounting ==
  [][ /\ \A h \in (DOMAIN timers') \ (DOMAIN timers) :
           timers'[h].frames = 0 /\ timers'[h].sinceFpsPrint = 0
      /\ \A h \in DOMAIN timers :
           (FrameStep(h) /\ proc' = "running") =>
             LET since == timers[h].sinceFpsPrint + (t - timers[h].tLast)
             IN  IF since > 1000
                 THEN /\ CountOps(calls', "log") = 1
                      /\ calls'[Len(calls') - 1].op = "log"
                      /\ calls'[Len(calls')].op = "update"
                      /\ timers'[h].frames = 0 /\ timers'[h].sinceFpsPrint = 0
                 ELSE /\ CountOps(calls', "log") = 0
                      /\ timers'[h].frames = timers[h].frames + 1
                      /\ timers'[h].sinceFpsPrint = since ]_vars

\* C33 witness: two frames 700 ms apart have brought the accumulator to 1400 ms; the
\* second logged the fps figure and reset the counters
C33_Witness ==
  /\ t = 1400 /\ FrameCalls /\ calls[1].dt = 700
  /\ CountOps(calls, "log") = 1
  /\ LoopRunning
  /\ timers[dudesInterval].frames = 0 /\ timers[dudesInterval].sinceFpsPrint = 0

\* C34: at most one animation timer is live, and it is the one whose handle
\* dudesInterval stores: every other timer start() returned has been cancelled, and
\* start() is called only while no animation timer is live.
C34_OneAnimationTimer ==
  /\ [](Cardinality(DOMAIN timers) <= 1 /\ DOMAIN timers \subseteq {dudesInterval})
  /\ [][ (DOMAIN timers') \ (DOMAIN timers) # {} =>
           (timers = <<>> /\ DOMAIN timers' = {dudesInterval'}) ]_vars

\* C34 witness: the loop was stopped and at 25 ms started again; one timer is live
C34_Witness ==
  /\ proc = "running" /\ LoopRunning
  /\ DOMAIN timers = {dudesInterval}
  /\ timers[dudesInterval].tLast = 25
  /\ CountOps(calls, "start") = 1

\* C35: while the process lives, an active schedule rule means the animation timer
\* is live and its handle stored, so in the window-end branch of checkSchedule the
\* test of dudesInterval is always true.
C35_ActiveRuleMeansTimer ==
  (proc # "exited" /\ currentScheduleRule # 0) =>
    /\ LoopRunning
    /\ (dudesInterval # 0 /\ isAfter(now, config.schedule[currentScheduleRule].end))
         = isAfter(now, config.schedule[currentScheduleRule].end)

\* C35 witness: the rule 14:00-15:00 is active at 15:00, before the scheduler tick
\* that ends it, and the timer is live
C35_Witness ==
  /\ proc = "running" /\ currentScheduleRule # 0
  /\ config.schedule[currentScheduleRule] = Afternoon /\ now = <<15, 0>>
  /\ LoopRunning

\* C36: after every scheduler tick that runs while the manager is not paused and
\* now lies inside the window of at least one rule, the animation loop is running,
\* the tick that ends the active rule inside another rule's window included.
C36_InWindowMeansRunning ==
  [][ (ScheduleTick /\ ~paused /\ InSomeWindow) => LoopRunning' ]_vars

\* the rule's end is not later in the day than its start
EndsBeforeStart(rule) == Minutes(rule.end) <= Minutes(rule.start)

\* C37: a rule whose end is not later than its start is never the active rule, at any
\* time of day; when every configured rule is such, no scheduler tick and no resume
\* starts the animation loop.
C37_WrappedRuleNeverActive ==
  /\ [](currentScheduleRule # 0 => ~EndsBeforeStart(config.schedule[currentScheduleRule]))
  /\ [][ (\A k \in DOMAIN config.schedule : EndsBeforeStart(config.schedule[k])) =>
           /\ (DOMAIN timers') \ (DOMAIN timers) = {}
           /\ currentScheduleRule' = 0 ]_vars

\* C37 witness: scheduled mode with the one rule 22:00-06:00, at 23:00 after a
\* pause() and a resume(), whose checkSchedule started nothing
C37_Witness ==
  /\ ~Immediate /\ config.schedule = <<Overnight>>
  /\ proc = "running" /\ now = <<23, 0>> /\ ~paused
  /\ lastCmd = "off" /\ Len(calls) = 1
  /\ currentScheduleRule = 0 /\ timers = <<>>

\* C38: pause() while paused and resume() while not paused change no manager state
\* and command the sink nothing; resume() while paused clears the flag, commands off
\* first and evaluates the schedule before it returns, so that when it returns and
\* now lies in some rule's window, a rule whose window contains now is active and
\* the loop is running.
C38_PauseResumeIdempotent ==
  [][ /\ ((Pause /\ paused) \/ (Resume /\ ~paused)) =>
           /\ UNCHANGED <<dudesInterval, currentScheduleRule, paused, timers, pixelData,
                          device, lastCmd>>
           /\ calls' = <<>>
      /\ (Resume /\ paused) =>
           /\ ~paused'
           /\ calls' # <<>> /\ calls'[1].op = "off"
           /\ (~threw' /\ InSomeWindow) =>
                /\ currentScheduleRule' # 0
                /\ inWindow(now, config.schedule[currentScheduleRule'])
                /\ LoopRunning' ]_vars

\* C39: whenever the manager has commanded the sink and no animation timer is live,
\* by a pause, a window end or a signal, its last command is off(); the step that
\* cancels the timer ends with off(), and setPixel or update() follows an off() only
\* from a live timer.
C39_StoppedMeansOff ==
  /\ []((proc # "crashed" /\ timers = <<>> /\ lastCmd # "none") => lastCmd = "off")
  /\ [][ /\ (timers # <<>> /\ timers' = <<>>) =>
              (lastCmd' = "off" /\ calls'[Len(calls')].op = "off")
         /\ (lastCmd = "off" /\ lastCmd' # "off") => timers # <<>> ]_vars

\* C39 witness: the loop drew (10,20,30) on a dotstar strip and was paused; no timer
\* is live and the last command is off()
C39_Witness ==
  /\ config.ledType = "dotstar" /\ proc = "running"
  /\ 0 \in DOMAIN device /\ device[0] = Rgb(10, 20, 30)
  /\ paused /\ timers = <<>> /\ dudesInterval = 0
  /\ lastCmd = "off"

\* the handler that ran last commanded the sink with update() or off()
SinkCommanded == \E c \in DOMAIN calls : calls[c].op \in {"update", "off"}

\* C40: the manager never calls update() or off() on a sink whose asynchronous
\* init has not finished: whenever an animation tick, a pause, a resume, a
\* scheduler tick or a termination signal has commanded the sink, the sink was
\* initialised, so no handler raises 'called before term initialized'
C40_SinkReadyBeforeCommand ==
  /\ SinkCommanded => sinkReady
  /\ ~(sinkThrows /\ SinkCommanded /\ (threw \/ proc = "crashed"))

====
